---------------------------- MODULE Spec2Model ----------------------------
(***************************************************************************)
(* A model of the Quiry ingestion pipeline: the conversational chunker     *)
(* (src/main/src/chunking.rs), the message handler with its inline         *)
(* fallback (src/main/src/handler.rs) and the log consumer                 *)
(* (src/main/src/kafka_consumer.rs).                                       *)
(*                                                                         *)
(* Conventions.                                                            *)
(*   Option<T>   : None is <<>>, Some(x) is <<x>>.                         *)
(*   timestamp   : the RFC 3339 string of a message is <<s>>, s the number *)
(*                 of seconds since the epoch it denotes; the empty string *)
(*                 (what Handler::message stores when formatting fails) is *)
(*                 <<>> and does not parse.                                *)
(*   SystemTime  : seconds since UNIX_EPOCH.                               *)
(***************************************************************************)
EXTENDS Integers, Sequences, FiniteSets, TLC

VARIABLES
    profile,      \* the family of inputs this behaviour draws from
    buffers,      \* ChunkManager.buffers of the log consumer / of the manager driven directly
    h_buffers,    \* ChunkManager.buffers behind Handler.chunk_manager
    uuid,         \* number of chunk ids generated so far (Uuid::new_v4 is fresh each time)
    vectors,      \* the vector store: a set of records keyed by id
    emitted,      \* history: every chunk create_chunk returned, with its members
    calls,        \* history: every process_message / flush_all_buffers call, in order
    kafka_producer, \* Handler.kafka_producer is Some
    log,          \* the durable log: partition key -> sequence of envelopes
    offset,       \* consumer position per partition
    committed,    \* committed consumer position per partition
    redelivered,  \* number of times the log has rewound the consumer so far
    commits,      \* number of automatic commits so far
    arrivals,     \* history: what Handler::message did with each arrival
    consuming,    \* the loop of KafkaConsumer::start_consuming has not returned
    iterations,   \* history: what each iteration of that loop met and how it ended
    es_documents, \* the keyword index: a set of documents keyed by _id
    ix_offset,    \* position of the indexer's consumer per partition
    ix_rewinds,   \* number of times the log has rewound the indexer so far
    indexing,     \* the loop of the indexer task has not ended
    ix_iterations, \* history: what each iteration of the indexer loop met and did
    es_client,    \* Handler.es_client is Some
    lock,         \* the task holding the Mutex of Handler.chunk_manager, 0 when free
    tasks         \* the event handler tasks in flight or finished, in order of dispatch

vars == <<profile, buffers, h_buffers, uuid, vectors, emitted, calls,
          kafka_producer, log, offset, committed, redelivered, commits, arrivals,
          consuming, iterations,
          es_documents, ix_offset, ix_rewinds, indexing, ix_iterations,
          es_client, lock, tasks>>

indexVars == <<es_documents, ix_offset, ix_rewinds, indexing, ix_iterations>>

askVars == <<es_client, lock, tasks>>

pipeVars == <<kafka_producer, log, offset, committed, redelivered, commits, arrivals, h_buffers,
              consuming, iterations>>

-----------------------------------------------------------------------------
(* Program constants, src/main/src/chunking.rs:10-13 *)

MAX_CHUNK_SIZE == 12
MIN_CHUNK_SIZE == 3
TIME_GAP_MINUTES == 15
SUMMARY_THRESHOLD_CHARS == 2000
UNIX_EPOCH == 0

(* Bounds of the model *)

MaxBurst == 13      \* calls in a "burst" behaviour (one channel, long runs)
MaxGaps == 2        \* messages of a burst that come more than TIME_GAP after the previous one
MaxFanout == 5      \* calls in a "fanout" behaviour (several channels)
MaxClock == 5       \* calls in a "clock" behaviour (arbitrary timestamps)
MaxVoices == 4      \* calls in a "voices" behaviour (several authors and texts)
MaxShutdown == 6    \* calls in a "shutdown" behaviour (drains and failing services)
MaxLong == 7        \* calls in a "long" behaviour (texts around the summary threshold)
MaxDrains == 1      \* flush_all_buffers calls in a behaviour
MaxFailures == 1    \* failing replies of the external services in a behaviour
MaxArrivals == 4    \* arrivals at Handler::message in a "pipe" behaviour
MaxPipeGaps == 1    \* arrivals of a "pipe" behaviour more than TIME_GAP after the previous one
MaxBots == 1        \* arrivals of a "pipe" behaviour written by a bot
MaxSendErrors == 1  \* publishes of a "pipe" behaviour that report an error
MaxCommits == 1     \* automatic commits of the consumer's positions in a behaviour
MaxRedeliveries == 1 \* times the log hands records out again (rebalance or restart)
MaxFallback == 5    \* arrivals at Handler::message in a "fallback" behaviour
MaxRoutes == 3      \* arrivals at Handler::message in a "routes" behaviour
MaxFaults == 5      \* arrivals at Handler::message in a "faults" behaviour
MaxStrays == 3      \* arrivals at Handler::message in a "strays" behaviour
MaxBadTimes == 1    \* arrivals of a behaviour whose timestamp does not parse
MaxForeign == 1     \* records of a "strays" behaviour that Handler::message did not publish
MaxIndexed == 3     \* arrivals at Handler::message in an "index" behaviour
MaxIndexFailures == 1 \* index requests of a behaviour that the keyword index does not store
MaxRewinds == 1     \* times the log hands records out again to the indexer
MaxIndexStrays == 3 \* arrivals at Handler::message in an "ixstrays" behaviour
MaxAsks == 2        \* /ask commands in an "asks" behaviour
MaxInline == 2      \* arrivals at Handler::message in a "tasks" behaviour
MaxAskFailures == 1 \* failing replies to the calls of the /ask commands of a behaviour
MaxFiltered == 2    \* /ask commands in a "filters" behaviour (channel and author options)
MaxRecvErrors == 1  \* errors returned by consumer.recv() in a behaviour

None == <<>>
Some(x) == <<x>>

T0 == 100000        \* timestamp of the first message of a behaviour, in seconds

-----------------------------------------------------------------------------
(* Strings *)

\* String's Ord on the author ids of the model: byte-wise, so "42" < "7".
StrRank == [s \in {"42", "7"} |-> IF s = "42" THEN 1 ELSE 2]

\* the author ids in descending order
RECURSIVE SortedSeq_desc(_)
SortedSeq_desc(S) ==
    IF S = {} THEN <<>>
    ELSE LET m == CHOOSE x \in S : \A y \in S : StrRank[x] >= StrRank[y]
         IN <<m>> \o SortedSeq_desc(S \ {m})

RECURSIVE SortedSeq(_)
SortedSeq(S) ==
    IF S = {} THEN <<>>
    ELSE LET m == CHOOSE x \in S : \A y \in S : StrRank[x] <= StrRank[y]
         IN <<m>> \o SortedSeq(S \ {m})

\* s repeated n times
RECURSIVE Rep(_, _)
Rep(s, n) == IF n = 0 THEN "" ELSE s \o Rep(s, n - 1)

\* A text of n characters (n >= 3).
LongText(n) == Rep("0123456789", n \div 10) \o Rep("x", n % 10)

RECURSIVE Join(_, _)
Join(lines, sep) ==
    IF lines = <<>> THEN ""
    ELSE IF Len(lines) = 1 THEN lines[1]
    ELSE lines[1] \o sep \o Join(Tail(lines), sep)

\* chrono::DateTime::parse_from_rfc3339, then .into() a SystemTime
parse_from_rfc3339(ts) ==
    IF Len(ts) = 1 THEN [ok |-> TRUE, time |-> ts[1]]
    ELSE [ok |-> FALSE, time |-> UNIX_EPOCH]

-----------------------------------------------------------------------------
(* MessageBuffer *)

MessageBuffer_new == [messages |-> <<>>, last_message_time |-> UNIX_EPOCH]

\* should_flush with the gap test written >= instead of >
should_flush_ge(buffer, new_message_time) ==
    IF buffer.messages = <<>> THEN FALSE
    ELSE IF Len(buffer.messages) >= MAX_CHUNK_SIZE THEN TRUE
    ELSE IF new_message_time >= buffer.last_message_time
         THEN new_message_time - buffer.last_message_time >= TIME_GAP_MINUTES * 60
         ELSE FALSE

\* should_flush without the gap test
should_flush_sizeOnly(buffer, new_message_time) ==
    IF buffer.messages = <<>> THEN FALSE
    ELSE Len(buffer.messages) >= MAX_CHUNK_SIZE

should_flush(buffer, new_message_time) ==
    IF buffer.messages = <<>> THEN FALSE
    ELSE IF Len(buffer.messages) >= MAX_CHUNK_SIZE THEN TRUE
    \* duration_since is Err when new_message_time is earlier
    ELSE IF new_message_time >= buffer.last_message_time
         THEN new_message_time - buffer.last_message_time > TIME_GAP_MINUTES * 60
         ELSE FALSE

\* add_message that puts the new message in front
add_message_front(buffer, message) ==
    LET p == parse_from_rfc3339(message.timestamp)
    IN [messages |-> <<message>> \o buffer.messages,
        last_message_time |-> IF p.ok THEN p.time ELSE buffer.last_message_time]

\* add_message that keeps only the new message
add_message_replace(buffer, message) ==
    LET p == parse_from_rfc3339(message.timestamp)
    IN [messages |-> <<message>>,
        last_message_time |-> IF p.ok THEN p.time ELSE buffer.last_message_time]

add_message(buffer, message) ==
    LET p == parse_from_rfc3339(message.timestamp)
    IN [messages |-> Append(buffer.messages, message),
        last_message_time |-> IF p.ok THEN p.time ELSE buffer.last_message_time]

Uuid(n) == "uuid-" \o ToString(n)

\* The MessageChunk create_chunk builds from a non-empty list of messages.
MakeChunk(messages, chunk_id) ==
    LET first_msg == messages[1]
        last_msg == messages[Len(messages)]
    IN [chunk_id |-> chunk_id,
        guild_id |-> first_msg.guild_id,
        channel_id |-> first_msg.channel_id,
        first_msg_id |-> first_msg.id,
        last_msg_id |-> last_msg.id,
        first_timestamp |-> first_msg.timestamp,
        last_timestamp |-> last_msg.timestamp,
        message_count |-> Len(messages),
        authors |-> SortedSeq({messages[i].author_id : i \in 1..Len(messages)}),
        full_text |-> Join([i \in 1..Len(messages) |->
                              messages[i].author_id \o ": " \o messages[i].text], "\n"),
        summary |-> None,
        has_summary |-> FALSE]

\* create_chunk that does not clear the buffer: the messages stay buffered
create_chunk_noClear(buffer, n) ==
    IF Len(buffer.messages) < MIN_CHUNK_SIZE
    THEN [chunk |-> None, members |-> <<>>, buffer |-> buffer]
    ELSE [chunk |-> Some(MakeChunk(buffer.messages, Uuid(n))),
          members |-> buffer.messages,
          buffer |-> buffer]

\* create_chunk that clears the buffer before the minimum test
create_chunk_dropShort(buffer, n) ==
    IF Len(buffer.messages) < MIN_CHUNK_SIZE
    THEN [chunk |-> None, members |-> <<>>, buffer |-> [buffer EXCEPT !.messages = <<>>]]
    ELSE [chunk |-> Some(MakeChunk(buffer.messages, Uuid(n))),
          members |-> buffer.messages,
          buffer |-> [buffer EXCEPT !.messages = <<>>]]

\* create_chunk without the minimum (it only refuses an empty buffer)
create_chunk_noMin(buffer, n) ==
    IF Len(buffer.messages) < 1
    THEN [chunk |-> None, members |-> <<>>, buffer |-> buffer]
    ELSE [chunk |-> Some(MakeChunk(buffer.messages, Uuid(n))),
          members |-> buffer.messages,
          buffer |-> [buffer EXCEPT !.messages = <<>>]]

\* create_chunk that leaves the last message in the buffer
create_chunk_keepLast(buffer, n) ==
    IF Len(buffer.messages) < MIN_CHUNK_SIZE
    THEN [chunk |-> None, members |-> <<>>, buffer |-> buffer]
    ELSE [chunk |-> Some(MakeChunk(buffer.messages, Uuid(n))),
          members |-> buffer.messages,
          buffer |-> [buffer EXCEPT !.messages = <<buffer.messages[Len(buffer.messages)]>>]]

\* Returns the Option<MessageChunk>, the messages it was built from, and the
\* buffer afterwards; n numbers the chunk id to generate.
create_chunk(buffer, n) ==
    IF Len(buffer.messages) < MIN_CHUNK_SIZE
    THEN [chunk |-> None, members |-> <<>>, buffer |-> buffer]
    ELSE [chunk |-> Some(MakeChunk(buffer.messages, Uuid(n))),
          members |-> buffer.messages,
          buffer |-> [buffer EXCEPT !.messages = <<>>]]

-----------------------------------------------------------------------------
(* ChunkManager *)

get_buffer_key(guild_id, channel_id) ==
    IF guild_id # None THEN guild_id[1] \o ":" \o channel_id
    ELSE "dm:" \o channel_id

\* The replies of the external services to one process_chunk call.
Outcomes(chunk) ==
    {oc \in [summary : {"ok", "err", "none"}, embed : {"ok", "err"},
             upsert : {"ok", "err", "none"}] :
        /\ (oc.summary = "none") <=> ~(Len(chunk.full_text) > SUMMARY_THRESHOLD_CHARS)
        /\ (oc.upsert = "none") <=> (oc.embed = "err")}

FailuresIn(oc) ==
    (IF oc.summary = "err" THEN 1 ELSE 0) + (IF oc.embed = "err" THEN 1 ELSE 0)
    + (IF oc.upsert = "err" THEN 1 ELSE 0)

Upsert(store, v) == {w \in store : w.id # v.id} \cup {v}

\* pinecone.rs upsert_chunk_to_pinecone: the vector written for a chunk
ChunkVector(chunk) == [id |-> "chunk_" \o chunk.chunk_id, type |-> "chunk", of |-> chunk]

\* pinecone.rs upsert_to_pinecone: the vector written for a single message
MessageVector(msg) == [id |-> msg.id, type |-> "message", of |-> msg]

\* process_chunk that upserts whatever the embedding call returned
process_chunk_blindUpsert(store, chunk, oc) ==
    LET c1 == IF Len(chunk.full_text) > SUMMARY_THRESHOLD_CHARS /\ oc.summary = "ok"
              THEN [chunk EXCEPT !.summary = Some("summary of " \o chunk.chunk_id),
                                 !.has_summary = TRUE]
              ELSE chunk
        text_to_embed == IF c1.has_summary THEN c1.summary[1] ELSE c1.full_text
        stored == oc.upsert # "err"
    IN [chunk |-> c1,
        summary_requested |-> Len(chunk.full_text) > SUMMARY_THRESHOLD_CHARS,
        text_to_embed |-> text_to_embed,
        upsert_attempted |-> TRUE,
        stored |-> stored,
        store |-> IF stored THEN Upsert(store, ChunkVector(c1)) ELSE store]

\* process_chunk that embeds the summary text even when none was obtained
process_chunk_embedSummary(store, chunk, oc) ==
    LET requested == Len(chunk.full_text) > SUMMARY_THRESHOLD_CHARS
        c1 == IF requested /\ oc.summary = "ok"
              THEN [chunk EXCEPT !.summary = Some("summary of " \o chunk.chunk_id),
                                 !.has_summary = TRUE]
              ELSE chunk
        text_to_embed == IF requested THEN "summary of " \o chunk.chunk_id ELSE c1.full_text
        stored == oc.embed = "ok" /\ oc.upsert = "ok"
    IN [chunk |-> c1,
        summary_requested |-> requested,
        text_to_embed |-> text_to_embed,
        upsert_attempted |-> oc.embed = "ok",
        stored |-> stored,
        store |-> IF stored THEN Upsert(store, ChunkVector(c1)) ELSE store]

\* process_chunk: the chunk as enriched, the text sent for embedding, whether
\* the upsert was made and succeeded, and the store afterwards.
process_chunk(store, chunk, oc) ==
    LET c1 == IF Len(chunk.full_text) > SUMMARY_THRESHOLD_CHARS /\ oc.summary = "ok"
              THEN [chunk EXCEPT !.summary = Some("summary of " \o chunk.chunk_id),
                                 !.has_summary = TRUE]
              ELSE chunk
        text_to_embed == IF c1.has_summary THEN c1.summary[1] ELSE c1.full_text
        stored == oc.embed = "ok" /\ oc.upsert = "ok"
    IN [chunk |-> c1,
        summary_requested |-> Len(chunk.full_text) > SUMMARY_THRESHOLD_CHARS,
        text_to_embed |-> text_to_embed,
        upsert_attempted |-> oc.embed = "ok",
        stored |-> stored,
        store |-> IF stored THEN Upsert(store, ChunkVector(c1)) ELSE store]

NoFlush(buffer) == [chunk |-> None, members |-> <<>>, buffer |-> buffer]

\* process_message without the early return on an unparseable timestamp
PMStep_noReject(bufs, message, n) ==
    LET buffer_key == get_buffer_key(message.guild_id, message.channel_id)
        p == parse_from_rfc3339(message.timestamp)
        b0 == IF buffer_key \in DOMAIN bufs THEN bufs[buffer_key] ELSE MessageBuffer_new
        flush == should_flush(b0, p.time)
        r1 == IF flush THEN create_chunk(b0, n) ELSE NoFlush(b0)
        n1 == IF r1.chunk # None THEN n + 1 ELSE n
        b2 == add_message(r1.buffer, message)
        r2 == IF Len(b2.messages) >= MAX_CHUNK_SIZE THEN create_chunk(b2, n1) ELSE NoFlush(b2)
        n2 == IF r2.chunk # None THEN n1 + 1 ELSE n1
    IN IF FALSE
       THEN [ok |-> FALSE, key |-> buffer_key, decision |-> FALSE, pre |-> b0,
             first |-> NoFlush(b0), second |-> NoFlush(b0), buffers |-> bufs, uuid |-> n]
       ELSE [ok |-> TRUE, key |-> buffer_key, decision |-> flush, pre |-> b0,
             first |-> r1, second |-> r2,
             buffers |-> [k \in DOMAIN bufs \cup {buffer_key} |->
                            IF k = buffer_key THEN r2.buffer ELSE bufs[k]],
             uuid |-> n2]


\* process_message with the post-append size test written > instead of >=
PMStep_gt(bufs, message, n) ==
    LET buffer_key == get_buffer_key(message.guild_id, message.channel_id)
        p == parse_from_rfc3339(message.timestamp)
        b0 == IF buffer_key \in DOMAIN bufs THEN bufs[buffer_key] ELSE MessageBuffer_new
        flush == should_flush(b0, p.time)
        r1 == IF flush THEN create_chunk(b0, n) ELSE NoFlush(b0)
        n1 == IF r1.chunk # None THEN n + 1 ELSE n
        b2 == add_message(r1.buffer, message)
        r2 == IF Len(b2.messages) > MAX_CHUNK_SIZE THEN create_chunk(b2, n1) ELSE NoFlush(b2)
        n2 == IF r2.chunk # None THEN n1 + 1 ELSE n1
    IN IF ~p.ok
       THEN [ok |-> FALSE, key |-> buffer_key, decision |-> FALSE, pre |-> b0,
             first |-> NoFlush(b0), second |-> NoFlush(b0), buffers |-> bufs, uuid |-> n]
       ELSE [ok |-> TRUE, key |-> buffer_key, decision |-> flush, pre |-> b0,
             first |-> r1, second |-> r2,
             buffers |-> [k \in DOMAIN bufs \cup {buffer_key} |->
                            IF k = buffer_key THEN r2.buffer ELSE bufs[k]],
             uuid |-> n2]


\* process_message that clears every buffer when it emits a chunk
PMStep_clearAll(bufs, message, n) ==
    LET buffer_key == get_buffer_key(message.guild_id, message.channel_id)
        p == parse_from_rfc3339(message.timestamp)
        b0 == IF buffer_key \in DOMAIN bufs THEN bufs[buffer_key] ELSE MessageBuffer_new
        flush == should_flush(b0, p.time)
        r1 == IF flush THEN create_chunk(b0, n) ELSE NoFlush(b0)
        n1 == IF r1.chunk # None THEN n + 1 ELSE n
        b2 == add_message(r1.buffer, message)
        r2 == IF Len(b2.messages) >= MAX_CHUNK_SIZE THEN create_chunk(b2, n1) ELSE NoFlush(b2)
        n2 == IF r2.chunk # None THEN n1 + 1 ELSE n1
    IN IF ~p.ok
       THEN [ok |-> FALSE, key |-> buffer_key, decision |-> FALSE, pre |-> b0,
             first |-> NoFlush(b0), second |-> NoFlush(b0), buffers |-> bufs, uuid |-> n]
       ELSE [ok |-> TRUE, key |-> buffer_key, decision |-> flush, pre |-> b0,
             first |-> r1, second |-> r2,
             buffers |-> [k \in DOMAIN bufs \cup {buffer_key} |->
                            IF k = buffer_key THEN r2.buffer
                            ELSE IF r1.chunk # None \/ r2.chunk # None
                                 THEN [bufs[k] EXCEPT !.messages = <<>>]
                                 ELSE bufs[k]],
             uuid |-> n2]


\* process_message without the size test after the append
PMStep_noPost(bufs, message, n) ==
    LET buffer_key == get_buffer_key(message.guild_id, message.channel_id)
        p == parse_from_rfc3339(message.timestamp)
        b0 == IF buffer_key \in DOMAIN bufs THEN bufs[buffer_key] ELSE MessageBuffer_new
        flush == should_flush(b0, p.time)
        r1 == IF flush THEN create_chunk(b0, n) ELSE NoFlush(b0)
        n1 == IF r1.chunk # None THEN n + 1 ELSE n
        b2 == add_message(r1.buffer, message)
        r2 == NoFlush(b2)
    IN IF ~p.ok
       THEN [ok |-> FALSE, key |-> buffer_key, decision |-> FALSE, pre |-> b0,
             first |-> NoFlush(b0), second |-> NoFlush(b0), buffers |-> bufs, uuid |-> n]
       ELSE [ok |-> TRUE, key |-> buffer_key, decision |-> flush, pre |-> b0,
             first |-> r1, second |-> r2,
             buffers |-> [k \in DOMAIN bufs \cup {buffer_key} |->
                            IF k = buffer_key THEN r2.buffer ELSE bufs[k]],
             uuid |-> n1]


\* process_message that also empties every other buffer whose last message
\* is more than TIME_GAP older than the arriving one
PMStep_sweep(bufs, message, n) ==
    LET buffer_key == get_buffer_key(message.guild_id, message.channel_id)
        p == parse_from_rfc3339(message.timestamp)
        b0 == IF buffer_key \in DOMAIN bufs THEN bufs[buffer_key] ELSE MessageBuffer_new
        flush == should_flush(b0, p.time)
        r1 == IF flush THEN create_chunk(b0, n) ELSE NoFlush(b0)
        n1 == IF r1.chunk # None THEN n + 1 ELSE n
        b2 == add_message(r1.buffer, message)
        r2 == IF Len(b2.messages) >= MAX_CHUNK_SIZE THEN create_chunk(b2, n1) ELSE NoFlush(b2)
        n2 == IF r2.chunk # None THEN n1 + 1 ELSE n1
    IN IF ~p.ok
       THEN [ok |-> FALSE, key |-> buffer_key, decision |-> FALSE, pre |-> b0,
             first |-> NoFlush(b0), second |-> NoFlush(b0), buffers |-> bufs, uuid |-> n]
       ELSE [ok |-> TRUE, key |-> buffer_key, decision |-> flush, pre |-> b0,
             first |-> r1, second |-> r2,
             buffers |-> [k \in DOMAIN bufs \cup {buffer_key} |->
                            IF k = buffer_key THEN r2.buffer
                            ELSE IF p.time - bufs[k].last_message_time > TIME_GAP_MINUTES * 60
                                 THEN [bufs[k] EXCEPT !.messages = <<>>]
                                 ELSE bufs[k]],
             uuid |-> n2]


\* The part of process_message that touches the buffers: the parse, the
\* pre-append flush decision, the append and the post-append size test.
PMStep(bufs, message, n) ==
    LET buffer_key == get_buffer_key(message.guild_id, message.channel_id)
        p == parse_from_rfc3339(message.timestamp)
        b0 == IF buffer_key \in DOMAIN bufs THEN bufs[buffer_key] ELSE MessageBuffer_new
        flush == should_flush(b0, p.time)
        r1 == IF flush THEN create_chunk(b0, n) ELSE NoFlush(b0)
        n1 == IF r1.chunk # None THEN n + 1 ELSE n
        b2 == add_message(r1.buffer, message)
        r2 == IF Len(b2.messages) >= MAX_CHUNK_SIZE THEN create_chunk(b2, n1) ELSE NoFlush(b2)
        n2 == IF r2.chunk # None THEN n1 + 1 ELSE n1
    IN IF ~p.ok
       THEN [ok |-> FALSE, key |-> buffer_key, decision |-> FALSE, pre |-> b0,
             first |-> NoFlush(b0), second |-> NoFlush(b0), buffers |-> bufs, uuid |-> n]
       ELSE [ok |-> TRUE, key |-> buffer_key, decision |-> flush, pre |-> b0,
             first |-> r1, second |-> r2,
             buffers |-> [k \in DOMAIN bufs \cup {buffer_key} |->
                            IF k = buffer_key THEN r2.buffer ELSE bufs[k]],
             uuid |-> n2]


NoOutcome == [summary |-> "none", embed |-> "none", upsert |-> "none"]

OutcomesOpt(optChunk) == IF optChunk = None THEN {NoOutcome} ELSE Outcomes(optChunk[1])

\* History record of one create_chunk that returned a chunk, and of its process_chunk.
Emission(r, pc, oc, key, via, mgr, call) ==
    [created |-> r.chunk[1], members |-> r.members, chunk |-> pc.chunk,
     key |-> key, via |-> via, mgr |-> mgr, call |-> call,
     summary_requested |-> pc.summary_requested, text_to_embed |-> pc.text_to_embed,
     upsert_attempted |-> pc.upsert_attempted, stored |-> pc.stored,
     outcome |-> oc, failures |-> FailuresIn(oc)]

\* The rest of process_message, given the replies of the services: the
\* process_chunk of the chunk flushed before the append, then of the one
\* flushed after it.  trace lists the steps in the order the code takes them.
PMFinish(step, store, oc1, oc2, mgr, call) ==
    LET has1 == step.first.chunk # None
        has2 == step.second.chunk # None
        pc1 == process_chunk(store, step.first.chunk[1], oc1)
        store1 == IF has1 THEN pc1.store ELSE store
        pc2 == process_chunk(store1, step.second.chunk[1], oc2)
        store2 == IF has2 THEN pc2.store ELSE store1
    IN [store |-> store2,
        emissions |->
            (IF has1 THEN <<Emission(step.first, pc1, oc1, step.key, "pre", mgr, call)>> ELSE <<>>)
            \o (IF has2 THEN <<Emission(step.second, pc2, oc2, step.key, "post", mgr, call)>> ELSE <<>>),
        trace |->
            IF ~step.ok THEN <<"error">>
            ELSE (IF step.decision THEN <<"flush">> ELSE <<>>)
                 \o (IF has1 THEN <<"create_chunk", "process_chunk">> ELSE <<>>)
                 \o <<"add_message">>
                 \o (IF has2 THEN <<"create_chunk", "process_chunk">> ELSE <<>>)]

CallRecord(op, mgr, message, step, trace) ==
    [op |-> op, mgr |-> mgr, msg |-> message, key |-> step.key, ok |-> step.ok,
     decision |-> step.decision, pre |-> step.pre, nonempty |-> {}, trace |-> trace,
     vector |-> "none"]

RECURSIVE SumFailures(_)
SumFailures(es) == IF es = <<>> THEN 0 ELSE es[1].failures + SumFailures(Tail(es))

Failures ==
    SumFailures(emitted)
    + Cardinality({i \in DOMAIN calls : calls[i].vector \in {"embed_err", "upsert_err"}})

-----------------------------------------------------------------------------
(* Inputs *)

Message(n, src, author, ts, text) ==
    [id |-> ToString(100 + n), guild_id |-> src[1], channel_id |-> src[2],
     author_id |-> author, timestamp |-> ts, text |-> text]

Src1 == <<Some("g1"), "c1">>
Sources == {<<None, "c1">>, <<Some("dm"), "c1">>, <<Some("g1"), "c1">>}
ClockTimes == {<<T0>>, <<T0 + 900>>, <<T0 + 901>>, <<>>}
GAP == TIME_GAP_MINUTES * 60 + 1

\* Length of a text such that three lines "7: <text>" joined by "\n" have
\* exactly SUMMARY_THRESHOLD_CHARS characters.
AtThreshold == (SUMMARY_THRESHOLD_CHARS - 11) \div 3
TimeOf(m) == m.timestamp[1]

IsPM(c) == c.op = "process_message"
NumDrains == Cardinality({i \in 1..Len(calls) : ~IsPM(calls[i])})

\* The families of inputs that go through Handler::message and the log.
PipeProfiles == {"pipe", "fallback", "routes", "faults", "strays"}

\* The families of inputs of Handler::message as a whole.
HandlerProfiles == PipeProfiles \cup {"index", "ixstrays", "tasks", "asks", "filters"}

\* The messages offered so far: to Handler::message in a behaviour of the
\* pipeline, to process_message otherwise.
Offered ==
    IF profile \in HandlerProfiles THEN [i \in 1..Len(arrivals) |-> arrivals[i].msg]
    ELSE LET pm == SelectSeq(calls, IsPM) IN [i \in 1..Len(pm) |-> pm[i].msg]

Timed == SelectSeq(Offered, LAMBDA m : parse_from_rfc3339(m.timestamp).ok)

\* Timestamp of the most recent message offered.
PrevTime == IF Timed = <<>> THEN T0 ELSE TimeOf(Timed[Len(Timed)])

NumGaps == Cardinality({i \in 2..Len(Timed) : TimeOf(Timed[i]) - TimeOf(Timed[i-1]) >= GAP})
NumBadTimes == Len(Offered) - Len(Timed)

\* What the families of inputs of the pipeline vary besides the messages:
\* arrivals written by a bot, publishes that report an error, commits and
\* redeliveries of the log, timestamps that do not parse, and records, receive
\* errors and payloads that Handler::message did not produce.
Direct == [pipe |-> FALSE, bots |-> FALSE, senderrs |-> FALSE, replays |-> FALSE,
           badtimes |-> FALSE, foreign |-> FALSE]
Piped(bots, senderrs, replays, badtimes, foreign) ==
    [pipe |-> TRUE, bots |-> bots, senderrs |-> senderrs, replays |-> replays,
     badtimes |-> badtimes, foreign |-> foreign]

\* What each family of inputs varies.  Every family is bounded in length;
\* "pace" is the number of seconds between a message and the next, "gaps"
\* how many times a message may instead come more than TIME_GAP after the
\* previous one, "times" lists absolute timestamps to draw from instead.
Profiles ==
    [burst    |-> [sources |-> {Src1}, authors |-> {"7"}, texts |-> {"hi"}, times |-> {},
                   gaps |-> MaxGaps, len |-> MaxBurst, drains |-> FALSE, failures |-> TRUE,
                   pace |-> 60] @@ Direct,
     fanout   |-> [sources |-> Sources, authors |-> {"7"}, texts |-> {"hi"}, times |-> {},
                   gaps |-> MaxGaps, len |-> MaxFanout, drains |-> FALSE, failures |-> FALSE,
                   pace |-> 60] @@ Direct,
     clock    |-> [sources |-> {Src1}, authors |-> {"7"}, texts |-> {"hi"}, times |-> ClockTimes,
                   gaps |-> 0, len |-> MaxClock, drains |-> FALSE, failures |-> FALSE,
                   pace |-> 60] @@ Direct,
     voices   |-> [sources |-> {Src1}, authors |-> {"42", "7"}, texts |-> {"", "hi", "a\nb"},
                   times |-> {},
                   gaps |-> 0, len |-> MaxVoices, drains |-> TRUE, failures |-> FALSE,
                   pace |-> 60] @@ Direct,
     shutdown |-> [sources |-> {<<None, "c1">>, Src1}, authors |-> {"7"}, texts |-> {"hi"},
                   times |-> {},
                   gaps |-> 0, len |-> MaxShutdown, drains |-> TRUE, failures |-> TRUE,
                   pace |-> 60] @@ Direct,
     long     |-> [sources |-> {Src1}, authors |-> {"7"},
                   texts |-> {LongText(AtThreshold), LongText(AtThreshold + 1)}, times |-> {},
                   gaps |-> 0, len |-> MaxLong, drains |-> FALSE, failures |-> TRUE,
                   pace |-> GAP] @@ Direct,
     pipe     |-> [sources |-> {Src1}, authors |-> {"7"}, texts |-> {"hi"}, times |-> {},
                   gaps |-> MaxPipeGaps, len |-> MaxArrivals, drains |-> FALSE,
                   failures |-> FALSE, pace |-> 60] @@ Piped(TRUE, TRUE, TRUE, FALSE, FALSE),
     fallback |-> [sources |-> {Src1}, authors |-> {"7"}, texts |-> {"hi"}, times |-> {},
                   gaps |-> MaxPipeGaps, len |-> MaxFallback, drains |-> FALSE,
                   failures |-> FALSE, pace |-> 60] @@ Piped(FALSE, TRUE, FALSE, FALSE, FALSE),
     routes   |-> [sources |-> Sources, authors |-> {"7"}, texts |-> {"hi"}, times |-> {},
                   gaps |-> 0, len |-> MaxRoutes, drains |-> FALSE,
                   failures |-> FALSE, pace |-> 60] @@ Piped(FALSE, FALSE, FALSE, FALSE, FALSE),
     faults   |-> [sources |-> {Src1}, authors |-> {"7"}, texts |-> {"hi"}, times |-> {},
                   gaps |-> MaxPipeGaps, len |-> MaxFaults, drains |-> FALSE,
                   failures |-> TRUE, pace |-> 60] @@ Piped(FALSE, FALSE, FALSE, TRUE, FALSE),
     strays   |-> [sources |-> {Src1}, authors |-> {"7"}, texts |-> {"hi"}, times |-> {},
                   gaps |-> 0, len |-> MaxStrays, drains |-> FALSE,
                   failures |-> TRUE, pace |-> 60] @@ Piped(FALSE, FALSE, FALSE, TRUE, TRUE),
     index    |-> [sources |-> {Src1}, authors |-> {"7"}, texts |-> {"hi"}, times |-> {},
                   gaps |-> 0, len |-> MaxIndexed, drains |-> FALSE,
                   failures |-> FALSE, pace |-> 60] @@ Piped(FALSE, FALSE, FALSE, FALSE, FALSE),
     ixstrays |-> [sources |-> {Src1}, authors |-> {"7"}, texts |-> {"hi"}, times |-> {},
                   gaps |-> 0, len |-> MaxIndexStrays, drains |-> FALSE,
                   failures |-> FALSE, pace |-> 60] @@ Piped(FALSE, FALSE, FALSE, FALSE, TRUE),
     tasks    |-> [sources |-> {<<None, "c1">>, Src1}, authors |-> {"7"}, texts |-> {"hi"},
                   times |-> {},
                   gaps |-> 0, len |-> MaxInline, drains |-> FALSE,
                   failures |-> FALSE, pace |-> 60] @@ Piped(FALSE, TRUE, FALSE, FALSE, FALSE),
     asks     |-> [sources |-> {Src1}, authors |-> {"7"}, texts |-> {"hi"}, times |-> {},
                   gaps |-> 0, len |-> 0, drains |-> FALSE,
                   failures |-> FALSE, pace |-> 60] @@ Piped(FALSE, FALSE, FALSE, FALSE, FALSE),
     filters  |-> [sources |-> {Src1}, authors |-> {"7"}, texts |-> {"hi"}, times |-> {},
                   gaps |-> 0, len |-> 0, drains |-> FALSE,
                   failures |-> FALSE, pace |-> 60] @@ Piped(FALSE, FALSE, FALSE, FALSE, FALSE)]

Profile == Profiles[profile]

FailureBudget == IF Profile.failures THEN MaxFailures ELSE 0

\* The timestamps the next message may carry, given the previous one's.
NextTimes(prev, gapsSoFar) ==
    IF Profile.times # {} THEN Profile.times
    ELSE {<<prev + d>> : d \in IF gapsSoFar < Profile.gaps THEN {Profile.pace, GAP}
                                ELSE {Profile.pace}}
         \cup (IF Profile.badtimes /\ NumBadTimes < MaxBadTimes THEN {<<>>} ELSE {})

Inputs ==
    LET n == Len(Offered) + 1 IN
    IF n > Profile.len THEN {}
    ELSE {Message(n, s, a, t, x) : s \in Profile.sources, a \in Profile.authors,
                                   t \in NextTimes(PrevTime, NumGaps), x \in Profile.texts}

-----------------------------------------------------------------------------
(* Operations of a ChunkManager driven directly *)

ProcessMessage ==
    \E message \in Inputs :
      \E step \in {PMStep(buffers, message, uuid)} :
      \E oc1 \in OutcomesOpt(step.first.chunk), oc2 \in OutcomesOpt(step.second.chunk) :
        /\ Failures + FailuresIn(oc1) + FailuresIn(oc2) <= FailureBudget
        /\ \E r \in {PMFinish(step, vectors, oc1, oc2, "consumer", Len(calls) + 1)} :
           /\ buffers' = step.buffers
           /\ uuid' = step.uuid
           /\ vectors' = r.store
           /\ emitted' = emitted \o r.emissions
           /\ calls' = Append(calls, CallRecord("process_message", "consumer", message, step, r.trace))
        /\ UNCHANGED <<profile, pipeVars, indexVars, askVars>>

Perms(S) == {f \in [1..Cardinality(S) -> S] : \A i, j \in DOMAIN f : i # j => f[i] # f[j]}

\* flush_all_buffers, first loop: create_chunk on every non-empty buffer, in
\* the order the HashMap iterates (order lists the keys in that order).
RECURSIVE DrainCollect(_, _, _, _)
DrainCollect(bufs, order, n, acc) ==
    IF order = <<>> THEN [buffers |-> bufs, uuid |-> n, chunks |-> acc]
    ELSE LET k == Head(order)
             r == IF bufs[k].messages # <<>> THEN create_chunk(bufs[k], n) ELSE NoFlush(bufs[k])
         IN IF r.chunk = None
            THEN DrainCollect(bufs, Tail(order), n, acc)
            ELSE DrainCollect([bufs EXCEPT ![k] = r.buffer], Tail(order), n + 1,
                              Append(acc, [flush |-> r, key |-> k]))

\* flush_all_buffers, second loop: process_chunk on each collected chunk.
RECURSIVE DrainProcess(_, _, _, _, _, _)
DrainProcess(store, chunks, ocs, mgr, call, acc) ==
    IF chunks = <<>> THEN [store |-> store, emissions |-> acc]
    ELSE LET r == Head(chunks).flush
             pc == process_chunk(store, r.chunk[1], Head(ocs))
         IN DrainProcess(pc.store, Tail(chunks), Tail(ocs), mgr, call,
                         Append(acc, Emission(r, pc, Head(ocs), Head(chunks).key, "drain", mgr, call)))

RECURSIVE SumOutcomeFailures(_)
SumOutcomeFailures(ocs) ==
    IF ocs = <<>> THEN 0 ELSE FailuresIn(Head(ocs)) + SumOutcomeFailures(Tail(ocs))

AllOutcomes == [summary : {"ok", "err", "none"}, embed : {"ok", "err"}, upsert : {"ok", "err", "none"}]

FlushAllBuffers ==
    /\ Profile.drains
    /\ NumDrains < MaxDrains
    /\ \E order \in Perms(DOMAIN buffers) :
         LET c == DrainCollect(buffers, order, uuid, <<>>) IN
         \E ocs \in [1..Len(c.chunks) -> AllOutcomes] :
           /\ \A i \in DOMAIN ocs : ocs[i] \in Outcomes(c.chunks[i].flush.chunk[1])
           /\ Failures + SumOutcomeFailures(ocs) <= FailureBudget
           /\ LET r == DrainProcess(vectors, c.chunks, ocs, "consumer", Len(calls) + 1, <<>>) IN
              /\ buffers' = c.buffers
              /\ uuid' = c.uuid
              /\ vectors' = r.store
              /\ emitted' = emitted \o r.emissions
              /\ calls' = Append(calls, [op |-> "flush_all_buffers", mgr |-> "consumer",
                                         msg |-> None, key |-> "", ok |-> TRUE,
                                         decision |-> FALSE, pre |-> MessageBuffer_new,
                                         nonempty |-> {k \in DOMAIN buffers :
                                                         buffers[k].messages # <<>>},
                                         trace |-> [i \in 1..Len(c.chunks) |-> "create_chunk"]
                                                   \o [i \in 1..Len(c.chunks) |-> "process_chunk"],
                                         vector |-> "none"])
    /\ UNCHANGED <<profile, pipeVars, indexVars, askVars>>

-----------------------------------------------------------------------------

(* The pipeline: Handler::message, the log, the consumer loop *)

\* KafkaMessage::new_discord_message
new_discord_message(message) ==
    [event_type |-> "DiscordMessage", message_id |-> message.id,
     guild_id |-> message.guild_id, channel_id |-> message.channel_id,
     timestamp |-> message.timestamp,
     payload |-> [variant |-> "DiscordMessage", event |-> message]]

\* get_partition_key that keys by guild and channel, as the chunker's buffers are
get_partition_key_byChannel(envelope) ==
    IF envelope.guild_id # None THEN envelope.guild_id[1] \o ":" \o envelope.channel_id
    ELSE "dm:" \o envelope.channel_id

\* KafkaMessage::get_partition_key
get_partition_key(envelope) ==
    IF envelope.guild_id # None THEN envelope.guild_id[1]
    ELSE "dm:" \o envelope.channel_id

\* serde_json::to_vec of a KafkaMessage: bytes that are its JSON.
to_vec(envelope) == [json |-> TRUE, value |-> envelope]

\* Bytes that are not the JSON of a KafkaMessage.
Garbage == [json |-> FALSE, value |-> None]

\* serde_json::from_slice::<KafkaMessage>
from_slice(bytes) ==
    IF bytes.json THEN [ok |-> TRUE, value |-> bytes.value]
    ELSE [ok |-> FALSE, value |-> None]

\* The replies of the embedding service and the vector store to the
\* per-message embed and upsert.
MessageOutcomes == {"stored", "embed_err", "upsert_err"}

\* The shared body with the per-message embed skipped when chunking failed
ProcessAndEmbed_skipOnError(mgr, event) ==
    LET bufs == IF mgr = "handler" THEN h_buffers ELSE buffers
        step == PMStep(bufs, event, uuid)
    IN \E oc1 \in OutcomesOpt(step.first.chunk), oc2 \in OutcomesOpt(step.second.chunk),
          mo \in IF step.ok THEN MessageOutcomes ELSE {"none"} :
        /\ Failures + FailuresIn(oc1) + FailuresIn(oc2)
              + (IF mo \in {"stored", "none"} THEN 0 ELSE 1) <= FailureBudget
        /\ LET r == PMFinish(step, vectors, oc1, oc2, mgr, Len(calls) + 1) IN
           /\ IF mgr = "handler"
              THEN h_buffers' = step.buffers /\ buffers' = buffers
              ELSE buffers' = step.buffers /\ h_buffers' = h_buffers
           /\ uuid' = step.uuid
           /\ vectors' = IF mo = "stored" THEN Upsert(r.store, MessageVector(event)) ELSE r.store
           /\ emitted' = emitted \o r.emissions
           /\ calls' = Append(calls, [CallRecord("process_message", mgr, event, step, r.trace)
                                        EXCEPT !.vector = mo])

\* chunk_manager.process_message on the manager mgr, then the per-message
\* embed and upsert: the body shared by Handler::process_message_directly
\* and KafkaConsumer::handle_discord_message.
ProcessAndEmbed(mgr, event) ==
    LET bufs == IF mgr = "handler" THEN h_buffers ELSE buffers
        step == PMStep(bufs, event, uuid)
    IN \E oc1 \in OutcomesOpt(step.first.chunk), oc2 \in OutcomesOpt(step.second.chunk),
          mo \in MessageOutcomes :
        /\ Failures + FailuresIn(oc1) + FailuresIn(oc2) + (IF mo = "stored" THEN 0 ELSE 1)
              <= FailureBudget
        /\ LET r == PMFinish(step, vectors, oc1, oc2, mgr, Len(calls) + 1) IN
           /\ IF mgr = "handler"
              THEN h_buffers' = step.buffers /\ buffers' = buffers
              ELSE buffers' = step.buffers /\ h_buffers' = h_buffers
           /\ uuid' = step.uuid
           /\ vectors' = IF mo = "stored" THEN Upsert(r.store, MessageVector(event)) ELSE r.store
           /\ emitted' = emitted \o r.emissions
           /\ calls' = Append(calls, [CallRecord("process_message", mgr, event, step, r.trace)
                                        EXCEPT !.vector = mo])

\* The log with one more record in partition p.
Appended(p, record) ==
    [q \in DOMAIN log \cup {p} |->
        IF q = p THEN Append(IF p \in DOMAIN log THEN log[p] ELSE <<>>, record)
        ELSE log[q]]

\* The log after send_discord_message wrote the envelope: its JSON, under
\* its partition key.
Published(envelope) ==
    Appended(get_partition_key(envelope), [payload |-> Some(to_vec(envelope))])

Positions(pos, theLog) == [q \in DOMAIN theLog |-> IF q \in DOMAIN pos THEN pos[q] ELSE 0]

NumBots == Cardinality({i \in DOMAIN arrivals : arrivals[i].bot})
NumSendErrors == Cardinality({i \in DOMAIN arrivals : arrivals[i].send \in {"err", "err_written"}})

\* Handler::message that never falls back after a failed publish
Fallback_never(send) == send = "none"

\* Handler::message calls process_message_directly when there is no producer
\* ("none") or send_discord_message returned Err.
Fallback(send) == send \in {"none", "err", "err_written"}

\* Handler::message.  send is what send_discord_message did: "ok", "err" (not
\* written, an error returned) or "err_written" (the record reached the log
\* but the acknowledgement did not arrive within message.timeout.ms, so an
\* error was returned).
HandlerMessage ==
    /\ Profile.pipe
    /\ \E event \in Inputs,
          bot \in IF Profile.bots /\ NumBots < MaxBots THEN BOOLEAN ELSE {FALSE},
          send \in IF ~kafka_producer THEN {"none"}
                   ELSE IF Profile.senderrs /\ NumSendErrors < MaxSendErrors
                        THEN {"ok", "err", "err_written"}
                   ELSE {"ok"} :
        LET written == send \in {"ok", "err_written"}
            inline == ~bot /\ Fallback(send)
        IN /\ arrivals' = Append(arrivals, [msg |-> event, bot |-> bot,
                                            send |-> IF bot THEN "none" ELSE send,
                                            inline |-> inline])
           /\ IF ~bot /\ written
              THEN /\ log' = Published(new_discord_message(event))
                   /\ offset' = Positions(offset, log')
                   /\ committed' = Positions(committed, log')
              ELSE UNCHANGED <<log, offset, committed>>
           /\ IF inline
              THEN ProcessAndEmbed("handler", event)
              ELSE UNCHANGED <<buffers, h_buffers, uuid, vectors, emitted, calls>>
    /\ UNCHANGED <<indexVars, askVars, profile, kafka_producer, redelivered, commits, consuming, iterations>>

\* Envelopes on the topic that are not DiscordMessage events: a type the
\* consumer does not handle, a query request, and a DiscordMessage type whose
\* payload is of another variant.
ForeignEnvelopes ==
    {[event_type |-> t[1], message_id |-> "x", guild_id |-> Some("g1"), channel_id |-> "c1",
      timestamp |-> None, payload |-> [variant |-> t[2], event |-> None]] :
        t \in {<<"MessageChunk", "MessageChunk">>, <<"QueryRequest", "QueryRequest">>,
               <<"DiscordMessage", "QueryRequest">>}}

\* Records on the topic that Handler::message did not write: without a
\* payload, with bytes that do not deserialize, or with a foreign envelope.
ForeignRecords ==
    {[payload |-> None], [payload |-> Some(Garbage)]}
    \cup {[payload |-> Some(to_vec(e))] : e \in ForeignEnvelopes}

\* What an iteration of start_consuming makes of a record: the payload test
\* of the loop, then the deserialization and the match of process_message,
\* then the if-let of handle_discord_message.
Dispatch(record) ==
    IF record.payload = None THEN "no_payload"
    ELSE LET d == from_slice(record.payload[1]) IN
         IF ~d.ok THEN "deserialize_error"
         ELSE IF d.value.event_type = "DiscordMessage"
              THEN IF d.value.payload.variant = "DiscordMessage" THEN "discord"
                   ELSE "no_match"
         ELSE IF d.value.event_type = "QueryRequest" THEN "query"
         ELSE "unhandled"

\* How the iteration ends: "continue" before process_message is called,
\* otherwise what process_message returned (handle_query_request propagates
\* the errors of its queries, handle_discord_message returns Ok).
Results(kind) ==
    CASE kind = "no_payload" -> {"continue"}
      [] kind = "deserialize_error" -> {"Err"}
      [] kind = "query" -> {"Ok", "Err"}
      [] OTHER -> {"Ok"}

\* Whether the iteration writes a log entry about the record when
\* handle_discord_message was not reached: the error! of the recv arm and of
\* the Err arm of start_consuming, the info! of the default arm of
\* process_message.  The else branch of the payload test only continues.
Logged(kind, result) ==
    CASE kind = "recv_error" -> TRUE
      [] kind = "no_payload" -> FALSE
      [] kind = "unhandled" -> TRUE
      [] OTHER -> result = "Err"

\* Whether handle_discord_message and process_chunk write an error or a
\* warning: each failing step has one, in the arm that handles it.
DiscordLogged(call, emissions) ==
    \/ ~call.ok
    \/ call.vector # "stored"
    \/ SumFailures(emissions) > 0

NumForeign ==
    Cardinality(UNION {{<<p, i>> : i \in {j \in DOMAIN log[p] : Dispatch(log[p][j]) # "discord"}} :
                          p \in DOMAIN log})

NumRecvErrors == Cardinality({i \in DOMAIN iterations : iterations[i].kind = "recv_error"})

\* start_consuming with the result of process_message propagated by ?
LoopContinues_propagate(result) == result # "Err"

\* Every arm of the loop of start_consuming goes on to the next iteration.
LoopContinues(result) == TRUE

\* Another producer writes a record to the topic.
ForeignRecord ==
    /\ Profile.foreign
    /\ NumForeign < MaxForeign
    /\ \E record \in ForeignRecords :
         /\ log' = Appended("g1", record)
         /\ offset' = Positions(offset, log')
         /\ committed' = Positions(committed, log')
    /\ UNCHANGED <<indexVars, askVars, profile, buffers, h_buffers, uuid, vectors, emitted, calls,
                   kafka_producer, redelivered, commits, arrivals, consuming, iterations>>

\* One iteration of KafkaConsumer::start_consuming in which recv() returns
\* an error.
RecvError ==
    /\ Profile.foreign
    /\ consuming
    /\ NumRecvErrors < MaxRecvErrors
    /\ iterations' = Append(iterations, [partition |-> "", offset |-> 0,
                                         kind |-> "recv_error", result |-> "continue",
                                         logged |-> Logged("recv_error", "continue"),
                                         call |-> 0])
    /\ consuming' = LoopContinues("continue")
    /\ UNCHANGED <<indexVars, askVars, profile, buffers, h_buffers, uuid, vectors, emitted, calls,
                   kafka_producer, log, offset, committed, redelivered, commits, arrivals>>

\* One iteration of KafkaConsumer::start_consuming on the next record of a
\* partition: process_message dispatches it, a DiscordMessage goes to
\* handle_discord_message.
ConsumerRecv ==
    /\ consuming
    /\ \E p \in DOMAIN log :
        /\ offset[p] < Len(log[p])
        /\ LET record == log[p][offset[p] + 1]
               kind == Dispatch(record)
           IN \E result \in Results(kind) :
                /\ IF kind = "discord"
                   THEN ProcessAndEmbed("consumer",
                                        from_slice(record.payload[1]).value.payload.event)
                   ELSE UNCHANGED <<buffers, h_buffers, uuid, vectors, emitted, calls>>
                /\ iterations' = Append(iterations,
                      [partition |-> p, offset |-> offset[p], kind |-> kind, result |-> result,
                       logged |-> IF kind = "discord"
                                  THEN DiscordLogged(calls'[Len(calls')],
                                                     SubSeq(emitted', Len(emitted) + 1,
                                                            Len(emitted')))
                                  ELSE Logged(kind, result),
                       call |-> IF kind = "discord" THEN Len(calls') ELSE 0])
                /\ consuming' = LoopContinues(result)
        /\ offset' = [offset EXCEPT ![p] = @ + 1]
    /\ UNCHANGED <<indexVars, askVars, profile, kafka_producer, log, committed, redelivered, commits, arrivals>>

\* enable.auto.commit: the positions reached are committed.
AutoCommit ==
    /\ Profile.replays
    /\ commits < MaxCommits
    /\ committed # offset
    /\ committed' = offset
    /\ commits' = commits + 1
    /\ UNCHANGED <<indexVars, askVars, profile, buffers, h_buffers, uuid, vectors, emitted, calls,
                   kafka_producer, log, offset, redelivered, arrivals, consuming, iterations>>

\* A rebalance of the consumer group: the consumer goes on from the
\* committed positions, so the records after them are delivered again.
Redeliver ==
    /\ Profile.replays
    /\ redelivered < MaxRedeliveries
    /\ committed # offset
    /\ offset' = committed
    /\ redelivered' = redelivered + 1
    /\ UNCHANGED <<indexVars, askVars, profile, buffers, h_buffers, uuid, vectors, emitted, calls,
                   kafka_producer, log, committed, commits, arrivals, consuming, iterations>>

\* The consumer process is restarted: KafkaConsumer::new builds an empty
\* ChunkManager and consumption goes on from the committed positions.
ConsumerRestart ==
    /\ Profile.replays
    /\ redelivered < MaxRedeliveries
    /\ calls # <<>>
    /\ buffers' = << >>
    /\ offset' = committed
    /\ redelivered' = redelivered + 1
    /\ consuming' = TRUE
    /\ UNCHANGED <<indexVars, askVars, profile, h_buffers, uuid, vectors, emitted, calls,
                   kafka_producer, log, committed, commits, arrivals, iterations>>

-----------------------------------------------------------------------------

(* The indexer worker, src/main/src/bin/indexer.rs *)

\* The request of index_message with an identifier made up by the index
index_message_autoId(message, n) ==
    [method |-> "POST", id |-> message.id \o "-" \o ToString(n),
     doc |-> [message_id |-> message.id, guild_id |-> message.guild_id,
              channel_id |-> message.channel_id, author_id |-> message.author_id,
              text |-> message.text, timestamp |-> message.timestamp]]

\* ElasticsearchClient::index_message: the request it sends, a PUT of the
\* document to {index}/_doc/{message.id}.  n is the time of the request
\* (created_at is left out of the document).
index_message(message, n) ==
    [method |-> "PUT", id |-> message.id,
     doc |-> [message_id |-> message.id, guild_id |-> message.guild_id,
              channel_id |-> message.channel_id, author_id |-> message.author_id,
              text |-> message.text, timestamp |-> message.timestamp]]

\* The keyword index after it served the request: the document stored
\* under the identifier of the request replaces the one that was there.
Indexed(documents, request) ==
    {d \in documents : d.id # request.id} \cup {[id |-> request.id, source |-> request.doc]}

\* What the index does with a request: "ok" stores the document, "rejected"
\* answers with a status that is not a success, "error" is a request that
\* did not complete.
IndexOutcomes == {"ok", "rejected", "error"}

NumIndexFailures ==
    Cardinality({i \in DOMAIN ix_iterations : ix_iterations[i].outcome \in {"rejected", "error"}})

NumIxRecvErrors ==
    Cardinality({i \in DOMAIN ix_iterations : ix_iterations[i].kind = "recv_error"})

\* What the indexer loop makes of a record: the payload test, from_slice,
\* then the if-let on the payload of the envelope (the event type is not
\* looked at).
IxDispatch(record) ==
    IF record.payload = None THEN "no_payload"
    ELSE LET d == from_slice(record.payload[1]) IN
         IF ~d.ok THEN "deserialize_error"
         ELSE IF d.value.payload.variant = "DiscordMessage" THEN "discord"
         ELSE "no_match"

\* Whether the iteration writes an error to the log: the Err arm of
\* from_slice and of recv, the Err of index_message, and inside
\* index_message the status that is not a success.
IxLogged(kind, outcome) ==
    \/ kind \in {"recv_error", "deserialize_error"}
    \/ kind = "discord" /\ outcome \in {"rejected", "error"}

\* The indexer loop that ends on the first failure
IxLoopContinues_stopOnError(kind, outcome) ==
    ~(kind = "deserialize_error" \/ outcome = "error")

\* Every arm of the loop of the indexer task goes on to the next iteration.
IxLoopContinues(kind, outcome) == TRUE

IxPosition(p) == IF p \in DOMAIN ix_offset THEN ix_offset[p] ELSE 0

\* One iteration of the indexer loop on the next record of a partition.
IndexerRecv ==
    /\ indexing
    /\ \E p \in DOMAIN log :
        /\ IxPosition(p) < Len(log[p])
        /\ LET record == log[p][IxPosition(p) + 1]
               kind == IxDispatch(record)
               n == Len(ix_iterations) + 1
           IN \E outcome \in IF kind = "discord"
                              THEN IF profile = "index" /\ NumIndexFailures < MaxIndexFailures
                                   THEN IndexOutcomes ELSE {"ok"}
                              ELSE {"none"} :
                LET request == IF kind = "discord"
                               THEN Some(index_message(
                                        from_slice(record.payload[1]).value.payload.event, n))
                               ELSE None
                IN /\ es_documents' = IF outcome = "ok"
                                      THEN Indexed(es_documents, request[1])
                                      ELSE es_documents
                   /\ ix_iterations' = Append(ix_iterations,
                         [partition |-> p, offset |-> IxPosition(p), kind |-> kind,
                          request |-> request, outcome |-> outcome,
                          logged |-> IxLogged(kind, outcome)])
                   /\ indexing' = IxLoopContinues(kind, outcome)
        /\ ix_offset' = [q \in DOMAIN log |-> IF q = p THEN IxPosition(p) + 1 ELSE IxPosition(q)]
    /\ UNCHANGED <<profile, buffers, h_buffers, uuid, vectors, emitted, calls, pipeVars,
                   ix_rewinds, askVars>>

\* One iteration of the indexer loop in which recv() returns an error.
IndexerRecvError ==
    /\ indexing
    /\ profile = "index"
    /\ NumIxRecvErrors < MaxRecvErrors
    /\ ix_iterations' = Append(ix_iterations,
          [partition |-> "", offset |-> 0, kind |-> "recv_error", request |-> None,
           outcome |-> "none", logged |-> IxLogged("recv_error", "none")])
    /\ indexing' = IxLoopContinues("recv_error", "none")
    /\ UNCHANGED <<profile, buffers, h_buffers, uuid, vectors, emitted, calls, pipeVars,
                   es_documents, ix_offset, ix_rewinds, askVars>>

\* A rebalance of the group quiry-indexer before any position was
\* committed: the records are delivered again from the earliest one.
IndexerRewind ==
    /\ profile = "index"
    /\ ix_rewinds < MaxRewinds
    /\ \E p \in DOMAIN log : IxPosition(p) > 0
    /\ ix_offset' = [q \in DOMAIN log |-> 0]
    /\ ix_rewinds' = ix_rewinds + 1
    /\ UNCHANGED <<profile, buffers, h_buffers, uuid, vectors, emitted, calls, pipeVars,
                   es_documents, indexing, ix_iterations, askVars>>

-----------------------------------------------------------------------------

(* The retriever: /ask in Handler::interaction_create, handler.rs *)

\* The weight of the dense score in the fusion, in hundredths: the 0.65
\* that hybrid_search passes to merge_search_results.
ALPHA == 65

NO_MESSAGES == "I couldn't find any relevant messages in the history to answer your question."
NO_INFORMATION == "I couldn't find any relevant information about that topic."
APOLOGY == "Sorry, I encountered an error while processing your question."

\* The guild clause of the filter of a vector store query.
GuildFilter(guild_id) ==
    IF guild_id # None THEN [eq |-> guild_id[1]] ELSE [exists |-> FALSE]

\* pinecone.rs query_chunks_pinecone: the query it sends.
query_chunks_pinecone(top_k, guild_id) ==
    [op |-> "queryChunks", topK |-> top_k,
     filter |-> [type |-> <<"chunk">>, guild_id |-> GuildFilter(guild_id)]]

\* pinecone.rs query_pinecone: the query it sends (no clause on type).
query_pinecone(top_k, guild_id) ==
    [op |-> "queryMessages", topK |-> top_k,
     filter |-> [type |-> None, guild_id |-> GuildFilter(guild_id)]]

\* ElasticsearchClient::search_messages: the query it sends.
search_messages(guild_id, channel_id, author_id, limit) ==
    [op |-> "search", topK |-> limit,
     filter |-> [guild_id |-> guild_id, channel_id |-> channel_id, author_id |-> author_id]]

\* Scores are in thousandths: a cosine score of 0.8 is 800, a keyword score
\* of 6.0 is 6000.

\* Results of the vector store for a chunk query.
ChunkA == [chunk_id |-> "uuid-0", text |-> "t1", score |-> 800]
ChunkB == [chunk_id |-> "t2", text |-> "t2", score |-> 200]
ChunkResults == {<<>>, <<ChunkA>>, <<ChunkA, ChunkB>>}

\* Results of the vector store for a per-message query.
MessageResults == {<<>>, <<[text |-> "t1", score |-> 700]>>}

\* Results of the keyword index.
KeywordResults ==
    {<<>>, <<[text |-> "t1", score |-> 6000]>>,
     <<[text |-> "t1", score |-> 6000], [text |-> "t2", score |-> 12000]>>,
     <<[text |-> "t2", score |-> 1000]>>}

\* a dense score that is not moved from [-1,1] to [0,1]
DenseFinal_noShift(score, alpha) == (alpha * score) \div 100

\* merge_search_results, first loop body: the score of a dense hit.
DenseFinal(score, alpha) == (alpha * ((score + 1000) \div 2)) \div 100

\* merge_search_results, second loop body: the score of a keyword hit.
KeywordFinal(score, alpha) == ((100 - alpha) * (score \div 10)) \div 100

\* HashMap::insert
Insert(map, key, value) ==
    [k \in DOMAIN map \cup {key} |-> IF k = key THEN value ELSE map[k]]

\* merge_search_results, first loop: the dense hits, keyed by chunk_id.
RECURSIVE AddDense(_, _, _)
AddDense(map, results, alpha) ==
    IF results = <<>> THEN map
    ELSE LET result == Head(results)
             final_score == DenseFinal(result.score, alpha)
         IN AddDense(Insert(map, result.chunk_id,
                            [final |-> final_score, from |-> "dense",
                             text |-> result.text, score |-> final_score]),
                     Tail(results), alpha)

\* merge_search_results, second loop: the keyword hits, keyed by text; an
\* entry already under that key stays unless the new score is greater.
RECURSIVE AddKeyword(_, _, _)
AddKeyword(map, results, alpha) ==
    IF results = <<>> THEN map
    ELSE LET result == Head(results)
             final_score == KeywordFinal(result.score, alpha)
             entry == [final |-> final_score, from |-> "keyword",
                       text |-> result.text, score |-> result.score]
         IN AddKeyword(IF result.text \in DOMAIN map
                       THEN IF final_score > map[result.text].final
                            THEN Insert(map, result.text, entry) ELSE map
                       ELSE Insert(map, result.text, entry),
                       Tail(results), alpha)

\* merge_search_results: the lists it may return, the values of the map
\* sorted by descending score (entries of equal score in the order the
\* HashMap happens to iterate).
merge_search_results(pinecone_results, es_results, alpha) ==
    LET combined_scores == AddKeyword(AddDense(<< >>, pinecone_results, alpha), es_results, alpha)
    IN {[i \in DOMAIN order |-> combined_scores[order[i]]] :
           order \in {o \in Perms(DOMAIN combined_scores) :
                         \A i, j \in DOMAIN o :
                             i < j => combined_scores[o[i]].final >= combined_scores[o[j]].final}}

\* Handler::initialize_es_client: Some(client) when ElasticsearchClient::new
\* succeeded, None (and a warning) when it failed.
initialize_es_client(constructed) == constructed

\* Handler::new: the producer is Some when KafkaProducer::new succeeded and
\* None otherwise, es_client is None; the result is always Ok.
Handler_new(produced) ==
    [ok |-> TRUE, kafka_producer |-> produced, es_client |-> FALSE]

\* Startup: Handler::new, then the keyword index client is constructed with
\* initialize_es_client and kept in es_client.
Startup ==
    /\ tasks = <<>>
    /\ \E produced \in BOOLEAN, constructed \in BOOLEAN :
         LET handler == Handler_new(produced) IN
         /\ kafka_producer' = handler.kafka_producer
         /\ es_client' = initialize_es_client(constructed)
         /\ tasks' = <<[kind |-> "startup", pc |-> "done", ok |-> handler.ok,
                        produced |-> produced, constructed |-> constructed]>>
    /\ UNCHANGED <<profile, buffers, h_buffers, uuid, vectors, emitted, calls,
                   log, offset, committed, redelivered, commits, arrivals, consuming,
                   iterations, indexVars, lock>>

IsAsk(t) == tasks[t].kind = "ask"
IsMessage(t) == tasks[t].kind = "message"
NumAsks == Cardinality({t \in DOMAIN tasks : IsAsk(t)})

\* The calls of the /ask commands so far that returned an error.
AskFailures ==
    Cardinality({x \in {<<t, i>> : t \in DOMAIN tasks, i \in 1..6} :
                    /\ IsAsk(x[1]) /\ x[2] <= Len(tasks[x[1]].steps)
                    /\ ~tasks[x[1]].steps[x[2]].ok})

Verdicts == IF AskFailures < MaxAskFailures THEN BOOLEAN ELSE {TRUE}

\* handle_ask_command_with_filters that always searches dense-only
UseHybrid_never(client) == FALSE

\* handle_ask_command_with_filters: hybrid_search when es_client is Some,
\* handle_ask_command otherwise.
UseHybrid(client) == client

\* The first call of the path taken: hybrid_search embeds the question only
\* for a caller with a guild.
FirstStep(client, guild_id) ==
    IF UseHybrid(client)
    THEN IF guild_id # None THEN "h_embed" ELSE "h_search"
    ELSE "embed"

\* Handler::interaction_create, the options of /ask besides the question:
\* "channel" when its value is a string, "author" when it is a user id.
AskOptions ==
    IF profile = "filters"
    THEN {[channel |-> c, author |-> a] : c \in {None, Some("c1")}, a \in {None, Some("7")}}
    ELSE {[channel |-> None, author |-> None]}

\* Handler::interaction_create for /ask with a question: the initial
\* response, then handle_ask_command_with_filters up to its first call.
InteractionCreate ==
    /\ tasks # <<>>
    /\ NumAsks < (IF profile = "asks" THEN MaxAsks
                  ELSE IF profile = "filters" THEN MaxFiltered ELSE 1)
    /\ \E guild_id \in {None, Some("g1")}, ok \in Verdicts, options \in AskOptions :
         tasks' = Append(tasks,
            [kind |-> "ask", guild_id |-> guild_id,
             channel_filter |-> options.channel, author_filter |-> options.author,
             path |-> IF ~ok THEN "none" ELSE IF UseHybrid(es_client) THEN "hybrid" ELSE "dense",
             pc |-> IF ok THEN FirstStep(es_client, guild_id) ELSE "done",
             steps |-> <<[op |-> "response", ok |-> ok, topK |-> 0, filter |-> None,
                          found |-> 0]>>,
             began |-> lock, ended |-> 0,
             results |-> <<>>, es_results |-> <<>>, merged |-> <<>>, result |-> None,
             followups |-> <<>>])
    /\ UNCHANGED <<profile, buffers, h_buffers, uuid, vectors, emitted, calls, pipeVars,
                   indexVars, es_client, lock>>

\* One call made by an /ask task, as recorded in its steps.
StepRecord(op, ok, request, found) ==
    [op |-> op, ok |-> ok, topK |-> request.topK, filter |-> Some(request.filter),
     found |-> found]

NoRequest == [topK |-> 0, filter |-> None]

Returned(task, step, result) ==
    [task EXCEPT !.steps = Append(@, step), !.result = Some(result), !.pc = "followup"]

\* a failed call answered with the fixed string
Failed_fixed(task, step) == Returned(task, step, [ok |-> TRUE, text |-> NO_MESSAGES])

\* The ? operator on a call that returned Err: the error is returned to the
\* caller and nothing further is called.
Failed(task, step) == Returned(task, step, [ok |-> FALSE, text |-> ""])

Goes(task, step, pc) == [task EXCEPT !.steps = Append(@, step), !.pc = pc]

\* handle_ask_command that queries the messages before the chunks
handle_ask_command_messagesFirst(task, ok, hits) ==
    CASE task.pc = "embed" ->
            LET step == StepRecord("embed", ok, NoRequest, 0) IN
            IF ok THEN Goes(task, step, "queryMessages") ELSE Failed(task, step)
      [] task.pc = "queryMessages" ->
            LET step == StepRecord("queryMessages", ok, query_pinecone(5, task.guild_id), Len(hits)) IN
            IF ~ok THEN Failed(task, step)
            ELSE IF hits # <<>> THEN Goes(task, step, "generate")
            ELSE Goes(task, step, "queryChunks")
      [] task.pc = "queryChunks" ->
            LET step == StepRecord("queryChunks", ok,
                                   query_chunks_pinecone(3, task.guild_id), Len(hits)) IN
            IF ~ok THEN Failed(task, step)
            ELSE IF hits # <<>> THEN Goes(task, step, "generateFromChunks")
            ELSE Returned(task, step, [ok |-> TRUE, text |-> NO_MESSAGES])
      [] OTHER ->
            LET step == StepRecord(task.pc, ok, NoRequest, 0) IN
            IF ok THEN Returned(task, step, [ok |-> TRUE, text |-> "answer"])
            ELSE Failed(task, step)

\* handle_ask_command that narrows the chunk query to the channel option
handle_ask_command_scoped(task, ok, hits) ==
    CASE task.pc = "embed" ->
            LET step == StepRecord("embed", ok, NoRequest, 0) IN
            IF ok THEN Goes(task, step, "queryChunks") ELSE Failed(task, step)
      [] task.pc = "queryChunks" ->
            LET step == StepRecord("queryChunks", ok,
                                   [query_chunks_pinecone(3, task.guild_id)
                                       EXCEPT !.filter.guild_id =
                                           IF task.channel_filter # None
                                           THEN [eq |-> task.channel_filter[1]] ELSE @],
                                   Len(hits)) IN
            IF ~ok THEN Failed(task, step)
            ELSE IF hits # <<>> THEN [Goes(task, step, "generateFromChunks") EXCEPT !.results = hits]
            ELSE Goes(task, step, "queryMessages")
      [] task.pc = "generateFromChunks" ->
            LET step == StepRecord("generateFromChunks", ok, NoRequest, 0) IN
            IF ok THEN Returned(task, step, [ok |-> TRUE, text |-> "answer"])
            ELSE Failed(task, step)
      [] task.pc = "queryMessages" ->
            LET step == StepRecord("queryMessages", ok, query_pinecone(5, task.guild_id), Len(hits)) IN
            IF ~ok THEN Failed(task, step)
            ELSE IF hits = <<>> THEN Returned(task, step, [ok |-> TRUE, text |-> NO_MESSAGES])
            ELSE [Goes(task, step, "generate") EXCEPT !.results = hits]
      [] task.pc = "generate" ->
            LET step == StepRecord("generate", ok, NoRequest, 0) IN
            IF ok THEN Returned(task, step, [ok |-> TRUE, text |-> "answer"])
            ELSE Failed(task, step)

\* Handler::handle_ask_command, one call at a time: task.pc is the call about
\* to be made, ok whether it succeeds and hits what a query returns.
handle_ask_command(task, ok, hits) ==
    CASE task.pc = "embed" ->
            LET step == StepRecord("embed", ok, NoRequest, 0) IN
            IF ok THEN Goes(task, step, "queryChunks") ELSE Failed(task, step)
      [] task.pc = "queryChunks" ->
            LET step == StepRecord("queryChunks", ok,
                                   query_chunks_pinecone(3, task.guild_id), Len(hits)) IN
            IF ~ok THEN Failed(task, step)
            ELSE IF hits # <<>> THEN [Goes(task, step, "generateFromChunks") EXCEPT !.results = hits]
            ELSE Goes(task, step, "queryMessages")
      [] task.pc = "generateFromChunks" ->
            LET step == StepRecord("generateFromChunks", ok, NoRequest, 0) IN
            IF ok THEN Returned(task, step, [ok |-> TRUE, text |-> "answer"])
            ELSE Failed(task, step)
      [] task.pc = "queryMessages" ->
            LET step == StepRecord("queryMessages", ok, query_pinecone(5, task.guild_id), Len(hits)) IN
            IF ~ok THEN Failed(task, step)
            ELSE IF hits = <<>> THEN Returned(task, step, [ok |-> TRUE, text |-> NO_MESSAGES])
            ELSE [Goes(task, step, "generate") EXCEPT !.results = hits]
      [] task.pc = "generate" ->
            LET step == StepRecord("generate", ok, NoRequest, 0) IN
            IF ok THEN Returned(task, step, [ok |-> TRUE, text |-> "answer"])
            ELSE Failed(task, step)

\* What the service called at this point may return.
HitsAt(pc) ==
    CASE pc \in {"queryChunks", "h_queryChunks"} -> ChunkResults
      [] pc = "queryMessages" -> MessageResults
      [] pc = "h_search" -> KeywordResults
      [] OTHER -> {<<>>}

\* A call of Handler::handle_ask_command returns.
HandleAskCommand ==
    /\ \E t \in DOMAIN tasks :
        /\ IsAsk(t) /\ tasks[t].path = "dense"
        /\ tasks[t].pc \in {"embed", "queryChunks", "generateFromChunks", "queryMessages", "generate"}
        /\ \E ok \in Verdicts, hits \in HitsAt(tasks[t].pc) :
             /\ ~ok => hits = <<>>
             /\ tasks' = [tasks EXCEPT ![t] = handle_ask_command(@, ok, hits)]
    /\ UNCHANGED <<profile, buffers, h_buffers, uuid, vectors, emitted, calls, pipeVars,
                   indexVars, es_client, lock>>

\* Handler::hybrid_search, one call at a time; merged is the list that
\* merge_search_results returned when the keyword search succeeded.
hybrid_search(task, ok, hits, merged) ==
    CASE task.pc = "h_embed" ->
            LET step == StepRecord("embed", ok, NoRequest, 0) IN
            IF ok THEN Goes(task, step, "h_queryChunks") ELSE Failed(task, step)
      [] task.pc = "h_queryChunks" ->
            LET step == StepRecord("queryChunks", ok,
                                   query_chunks_pinecone(5, task.guild_id), Len(hits)) IN
            IF ~ok THEN Failed(task, step)
            ELSE [Goes(task, step, "h_search") EXCEPT !.results = hits]
      [] task.pc = "h_search" ->
            LET step == StepRecord("search", ok,
                                   search_messages(task.guild_id, task.channel_filter,
                                                   task.author_filter, 5), Len(hits)) IN
            IF ~ok THEN Failed(task, step)
            ELSE IF merged = <<>>
                 THEN Returned(task, step, [ok |-> TRUE, text |-> NO_INFORMATION])
            ELSE [Goes(task, step, "h_generate") EXCEPT !.merged = merged, !.es_results = hits]
      [] task.pc = "h_generate" ->
            LET step == StepRecord("generateFromChunks", ok, NoRequest, 0) IN
            IF ok THEN Returned(task, step, [ok |-> TRUE, text |-> "answer"])
            ELSE Failed(task, step)

\* A call of Handler::hybrid_search returns.
HybridSearch ==
    /\ \E t \in DOMAIN tasks :
        /\ IsAsk(t) /\ tasks[t].path = "hybrid"
        /\ tasks[t].pc \in {"h_embed", "h_queryChunks", "h_search", "h_generate"}
        /\ \E ok \in Verdicts, hits \in HitsAt(tasks[t].pc) :
             /\ ~ok => hits = <<>>
             /\ \E merged \in IF tasks[t].pc = "h_search" /\ ok
                              THEN merge_search_results(tasks[t].results, hits, ALPHA)
                              ELSE {<<>>} :
                  tasks' = [tasks EXCEPT ![t] = hybrid_search(@, ok, hits, merged)]
    /\ UNCHANGED <<profile, buffers, h_buffers, uuid, vectors, emitted, calls, pipeVars,
                   indexVars, es_client, lock>>

\* a follow-up that waits for the Mutex of chunk_manager
Followup_locked ==
    /\ lock = 0
    /\ \E t \in DOMAIN tasks :
        /\ IsAsk(t) /\ tasks[t].pc = "followup"
        /\ tasks' = [tasks EXCEPT ![t].pc = "done", ![t].ended = lock,
                                  ![t].followups =
                                      Append(@, IF tasks[t].result[1].ok
                                                THEN tasks[t].result[1].text ELSE APOLOGY)]
    /\ UNCHANGED <<profile, buffers, h_buffers, uuid, vectors, emitted, calls, pipeVars,
                   indexVars, es_client, lock>>

\* Handler::interaction_create, the match on the result of
\* handle_ask_command_with_filters: one create_followup in either arm.
Followup ==
    /\ \E t \in DOMAIN tasks :
        /\ IsAsk(t) /\ tasks[t].pc = "followup"
        /\ tasks' = [tasks EXCEPT ![t].pc = "done", ![t].ended = lock,
                                  ![t].followups =
                                      Append(@, IF tasks[t].result[1].ok
                                                THEN tasks[t].result[1].text ELSE APOLOGY)]
    /\ UNCHANGED <<profile, buffers, h_buffers, uuid, vectors, emitted, calls, pipeVars,
                   indexVars, es_client, lock>>

\* Handler::message as a task: the publish when there is a producer; the
\* task goes on to process_message_directly in the branches that call it.
MessageArrives ==
    /\ tasks # <<>>
    /\ \E event \in Inputs,
          send \in IF ~kafka_producer THEN {"none"}
                   ELSE IF NumSendErrors < MaxSendErrors THEN {"ok", "err"} ELSE {"ok"} :
        /\ arrivals' = Append(arrivals, [msg |-> event, bot |-> FALSE, send |-> send,
                                         inline |-> Fallback(send)])
        /\ IF send = "ok"
           THEN /\ log' = Published(new_discord_message(event))
                /\ offset' = Positions(offset, log')
                /\ committed' = Positions(committed, log')
           ELSE UNCHANGED <<log, offset, committed>>
        /\ tasks' = Append(tasks,
              [kind |-> "message", event |-> event,
               key |-> get_buffer_key(event.guild_id, event.channel_id),
               pc |-> IF Fallback(send) THEN "lock" ELSE "done", call |-> 0])
    /\ UNCHANGED <<profile, buffers, h_buffers, uuid, vectors, emitted, calls,
                   kafka_producer, redelivered, commits, consuming, iterations,
                   indexVars, es_client, lock>>

\* process_message_directly with a lock per buffer key
CanLock_perKey(t) ==
    \A u \in DOMAIN tasks :
        (IsMessage(u) /\ tasks[u].pc \in {"locked", "embedding"})
            => tasks[u].key # tasks[t].key

\* a lock that is granted whoever holds it
CanLock_free(t) == TRUE

\* self.chunk_manager.lock().await returns when no task holds the Mutex.
CanLock(t) == lock = 0

\* process_message_directly, line 300: the task takes the Mutex of
\* chunk_manager.
MessageLock ==
    /\ \E t \in DOMAIN tasks :
        /\ IsMessage(t) /\ tasks[t].pc = "lock"
        /\ CanLock(t)
        /\ lock' = t
        /\ tasks' = [tasks EXCEPT ![t].pc = "locked"]
    /\ UNCHANGED <<profile, buffers, h_buffers, uuid, vectors, emitted, calls, pipeVars,
                   indexVars, es_client>>

\* a guard dropped as soon as process_message returned
GuardScope_chunking == {"locked"}

\* The positions of process_message_directly at which the guard taken at
\* line 300 is alive: the local chunk_manager is dropped when the function
\* returns, after the per-message embed and upsert.
GuardScope == {"locked", "embedding"}

\* chunk_manager.process_message on the handler's manager, lines 301-303; an
\* error is logged and the function goes on.
ChunkDirectly(event) ==
    LET step == PMStep(h_buffers, event, uuid)
    IN \E oc1 \in OutcomesOpt(step.first.chunk), oc2 \in OutcomesOpt(step.second.chunk) :
        /\ Failures + FailuresIn(oc1) + FailuresIn(oc2) <= FailureBudget
        /\ LET r == PMFinish(step, vectors, oc1, oc2, "handler", Len(calls) + 1) IN
           /\ h_buffers' = step.buffers
           /\ uuid' = step.uuid
           /\ vectors' = r.store
           /\ emitted' = emitted \o r.emissions
           /\ calls' = Append(calls, CallRecord("process_message", "handler", event, step,
                                                r.trace))

\* process_message_directly, lines 301-303: process_message with the guard
\* held; the task goes on to the per-message embed.
MessageProcess ==
    /\ \E t \in DOMAIN tasks :
        /\ IsMessage(t) /\ tasks[t].pc = "locked"
        /\ ChunkDirectly(tasks[t].event)
        /\ lock' = IF lock = t /\ "embedding" \notin GuardScope THEN 0 ELSE lock
        /\ tasks' = [tasks EXCEPT ![t].pc = "embedding", ![t].call = Len(calls) + 1]
    /\ UNCHANGED <<profile, buffers, kafka_producer, log, offset, committed, redelivered,
                   commits, arrivals, consuming, iterations, indexVars, es_client>>

\* process_message_directly, lines 305-314: get_embedding and
\* upsert_to_pinecone for the message itself, then the function returns and
\* the guard is dropped.
MessageEmbed ==
    /\ \E t \in DOMAIN tasks :
        /\ IsMessage(t) /\ tasks[t].pc = "embedding"
        /\ \E mo \in MessageOutcomes :
             /\ Failures + (IF mo = "stored" THEN 0 ELSE 1) <= FailureBudget
             /\ vectors' = IF mo = "stored" THEN Upsert(vectors, MessageVector(tasks[t].event))
                           ELSE vectors
             /\ calls' = [calls EXCEPT ![tasks[t].call].vector = mo]
        /\ lock' = IF lock = t THEN 0 ELSE lock
        /\ tasks' = [tasks EXCEPT ![t].pc = "done"]
    /\ UNCHANGED <<profile, buffers, h_buffers, uuid, emitted, kafka_producer, log, offset,
                   committed, redelivered, commits, arrivals, consuming, iterations,
                   indexVars, es_client>>

-----------------------------------------------------------------------------

InitCommon ==
    /\ buffers = << >>
    /\ h_buffers = << >>
    /\ uuid = 0
    /\ vectors = {}
    /\ emitted = <<>>
    /\ calls = <<>>
    /\ log = << >>
    /\ offset = << >>
    /\ committed = << >>
    /\ redelivered = 0
    /\ commits = 0
    /\ arrivals = <<>>
    /\ consuming = TRUE
    /\ iterations = <<>>
    /\ es_documents = {}
    /\ ix_offset = << >>
    /\ ix_rewinds = 0
    /\ indexing = TRUE
    /\ ix_iterations = <<>>
    /\ lock = 0
    /\ tasks = <<>>

Init ==
    /\ profile \in {"burst", "fanout", "clock", "voices", "shutdown", "long"}
    /\ kafka_producer = FALSE
    /\ es_client = FALSE
    /\ InitCommon

Next == ProcessMessage \/ FlushAllBuffers

Spec == Init /\ [][Next]_vars

\* One channel on which messages keep arriving: as long as the family of
\* inputs has a message left, process_message is called with it.
InitLive ==
    /\ profile = "burst"
    /\ kafka_producer = FALSE
    /\ es_client = FALSE
    /\ InitCommon

NextLive == ProcessMessage

SpecLive == InitLive /\ [][NextLive]_vars /\ WF_vars(ProcessMessage)

\* Handler::new: the producer is Some or None; everything else empty.
InitPipe ==
    /\ profile \in PipeProfiles
    /\ kafka_producer \in BOOLEAN
    /\ es_client = FALSE
    /\ InitCommon

NextPipe ==
    \/ HandlerMessage
    \/ ForeignRecord
    \/ ConsumerRecv
    \/ RecvError
    \/ AutoCommit
    \/ Redeliver
    \/ ConsumerRestart

SpecPipe == InitPipe /\ [][NextPipe]_vars

\* The handler publishing to the log and the indexer worker reading it.
InitIndex ==
    /\ profile \in {"index", "ixstrays"}
    /\ kafka_producer = TRUE
    /\ es_client = FALSE
    /\ InitCommon

NextIndex ==
    \/ HandlerMessage
    \/ ForeignRecord
    \/ IndexerRecv
    \/ IndexerRecvError
    \/ IndexerRewind

SpecIndex == InitIndex /\ [][NextIndex]_vars

\* The bot: startup, then the tasks the gateway dispatches for arriving
\* messages and /ask commands, which run concurrently.
InitAsk ==
    /\ profile \in {"asks", "tasks", "filters"}
    /\ kafka_producer = FALSE
    /\ es_client = FALSE
    /\ InitCommon

NextAsk ==
    \/ Startup
    \/ InteractionCreate
    \/ HandleAskCommand
    \/ HybridSearch
    \/ Followup
    \/ MessageArrives
    \/ MessageLock
    \/ MessageProcess
    \/ MessageEmbed

SpecAsk == InitAsk /\ [][NextAsk]_vars

-----------------------------------------------------------------------------
(* Properties *)

L == Len(calls)
Last == calls[L]
LastIsPM == calls # <<>> /\ Last.op = "process_message"
LastIsDrain == calls # <<>> /\ Last.op = "flush_all_buffers"
EmittedBy(i) == {j \in DOMAIN emitted : emitted[j].call = i}
Members(e) == {e.members[i] : i \in DOMAIN e.members}

\* C1: every chunk emitted by process_message (not by flush_all_buffers) has
\* between MIN_CHUNK_SIZE (3) and MAX_CHUNK_SIZE (12) messages, and its
\* message_count is the number of its members.
C1_ChunkSizeBounds ==
    \A j \in DOMAIN emitted :
        emitted[j].via # "drain" =>
            /\ 3 <= emitted[j].created.message_count
            /\ emitted[j].created.message_count <= 12
            /\ emitted[j].created.message_count = Len(emitted[j].members)

\* a gap flush of a buffer holding exactly the minimum
C1_Witness ==
    \E j \in DOMAIN emitted :
        emitted[j].via = "pre" /\ emitted[j].created.message_count = 3

\* C2: for a message with parseable timestamp t, the pre-append decision is
\* "flush" exactly when the buffer is non-empty and (it holds >= 12 messages
\* or t - last_message_time > 15 minutes).
C2_FlushDecision ==
    \A i \in DOMAIN calls :
        LET c == calls[i] IN
        (c.op = "process_message" /\ c.msg.timestamp # <<>>) =>
            (c.decision <=>
                /\ Len(c.pre.messages) > 0
                /\ \/ Len(c.pre.messages) >= 12
                   \/ TimeOf(c.msg) - c.pre.last_message_time > 15 * 60)

\* a message exactly 15 minutes after the last one of a non-empty buffer, and
\* one earlier than it, were decided
C2_Witness ==
    /\ \E i \in DOMAIN calls :
          /\ calls[i].op = "process_message" /\ calls[i].ok
          /\ calls[i].pre.messages # <<>>
          /\ TimeOf(calls[i].msg) - calls[i].pre.last_message_time = 15 * 60
          /\ ~calls[i].decision
    /\ \E i \in DOMAIN calls :
          /\ calls[i].op = "process_message" /\ calls[i].ok
          /\ calls[i].pre.messages # <<>>
          /\ TimeOf(calls[i].msg) < calls[i].pre.last_message_time

\* C3 (as claimed): after flush_all_buffers every buffer is empty and one
\* chunk was emitted for each buffer that was non-empty.
C3_DrainEmptiesAll ==
    LastIsDrain =>
        /\ \A k \in DOMAIN buffers : buffers[k].messages = <<>>
        /\ \A k \in Last.nonempty :
              Cardinality({j \in EmittedBy(L) : emitted[j].key = k}) = 1

\* C4 (as claimed): a message with an unparseable timestamp is appended to
\* its buffer, last_message_time unchanged.
C4_AppendedAnyway ==
    (LastIsPM /\ Last.msg.timestamp = <<>>) =>
        /\ Last.key \in DOMAIN buffers
        /\ buffers[Last.key].messages # <<>>
        /\ buffers[Last.key].messages[Len(buffers[Last.key].messages)] = Last.msg
        /\ buffers[Last.key].last_message_time = Last.pre.last_message_time

\* C4 (amended): process_message rejects a message with an unparseable
\* timestamp before it touches anything: the call is an error, no buffer is
\* created or changed (so no last_message_time changes), nothing is emitted or
\* stored; hence no buffered message has an unparseable timestamp.
C4_RejectedUntouched ==
    /\ [](\A k \in DOMAIN buffers : \A i \in DOMAIN buffers[k].messages :
             buffers[k].messages[i].timestamp # <<>>)
    /\ [][(/\ Len(calls') = Len(calls) + 1
           /\ calls'[Len(calls')].op = "process_message"
           /\ calls'[Len(calls')].msg.timestamp = <<>>)
          => /\ buffers' = buffers
             /\ emitted' = emitted
             /\ vectors' = vectors
             /\ ~calls'[Len(calls')].ok]_vars

\* an unparseable message arrived for a buffer that already held messages
C4_Witness ==
    /\ LastIsPM /\ Last.msg.timestamp = <<>>
    /\ Last.key \in DOMAIN buffers
    /\ Len(buffers[Last.key].messages) >= 2

\* C5: a message more than 15 minutes after the last one of a buffer holding
\* n >= 3 messages: a chunk of exactly those n is emitted and enriched before
\* the append, the new message is not in it and is alone in the buffer after.
C5_GapFlush ==
    (/\ LastIsPM /\ Last.ok
     /\ Len(Last.pre.messages) >= 3
     /\ TimeOf(Last.msg) - Last.pre.last_message_time > 15 * 60) =>
        /\ Cardinality(EmittedBy(L)) = 1
        /\ \A j \in EmittedBy(L) :
              /\ emitted[j].members = Last.pre.messages
              /\ emitted[j].created.message_count = Len(Last.pre.messages)
              /\ Last.msg \notin Members(emitted[j])
        /\ Last.trace = <<"flush", "create_chunk", "process_chunk", "add_message">>
        /\ buffers[Last.key].messages = <<Last.msg>>

C5_Witness ==
    /\ LastIsPM /\ Last.ok
    /\ Len(Last.pre.messages) = 5
    /\ TimeOf(Last.msg) - Last.pre.last_message_time > 15 * 60
    /\ \E j \in EmittedBy(L) : emitted[j].stored

\* C6: when the flush condition fires on a buffer of fewer than 3 messages,
\* no chunk is emitted, the buffered messages stay, the new one is appended.
C6_BelowMinimum ==
    (/\ LastIsPM /\ Last.ok /\ Last.decision
     /\ Len(Last.pre.messages) < 3) =>
        /\ EmittedBy(L) = {}
        /\ buffers[Last.key].messages = Append(Last.pre.messages, Last.msg)

\* 2 buffered, the third arrives after a gap: 3 buffered
C6_Witness ==
    /\ LastIsPM /\ Last.ok /\ Last.decision
    /\ Len(Last.pre.messages) = 2
    /\ Len(buffers[Last.key].messages) = 3
    /\ emitted = <<>>

\* The last n calls of process_message for the key of the last call.
RECURSIVE LastCallsFor(_, _, _)
LastCallsFor(key, i, n) ==
    IF n = 0 \/ i = 0 THEN <<>>
    ELSE IF calls[i].op = "process_message" /\ calls[i].key = key
         THEN Append(LastCallsFor(key, i - 1, n - 1), i)
         ELSE LastCallsFor(key, i - 1, n)

\* The last call completes a run of 12 consecutive process_message calls
\* for one key that starts on an empty buffer, has every timestamp parseable
\* and no gap over 15 minutes between neighbours, and no drain in between.
RunOf12 ==
    /\ LastIsPM
    /\ LET W == LastCallsFor(Last.key, L, 12) IN
       /\ Len(W) = 12
       /\ \A i \in 1..12 : calls[W[i]].ok
       /\ calls[W[1]].pre.messages = <<>>
       /\ \A i \in 1..11 : TimeOf(calls[W[i+1]].msg) - TimeOf(calls[W[i]].msg) <= 15 * 60
       /\ \A i \in W[1]..L : calls[i].op = "process_message"

\* C7: such a run emits exactly one chunk, during the 12th call, of all 12
\* messages, and leaves the buffer empty.
C7_TwelveInARow ==
    RunOf12 =>
        LET W == LastCallsFor(Last.key, L, 12) IN
        /\ \A i \in 1..11 : EmittedBy(W[i]) = {}
        /\ Cardinality(EmittedBy(L)) = 1
        /\ \A j \in EmittedBy(L) :
              /\ emitted[j].created.message_count = 12
              /\ emitted[j].members = [i \in 1..12 |-> calls[W[i]].msg]
        /\ buffers[Last.key].messages = <<>>

C7_Witness == RunOf12 /\ Cardinality(EmittedBy(L)) = 1

\* C8 (as claimed): every member of an emitted chunk has the chunk's
\* channel_id and guild_id.
C8_MembersShareChannel ==
    \A j \in DOMAIN emitted : \A m \in Members(emitted[j]) :
        /\ m.channel_id = emitted[j].created.channel_id
        /\ m.guild_id = emitted[j].created.guild_id

\* The chunks a ChunkManager emits from the buffer of one key when it is
\* given only that key's process_message calls of cs (and the drains).
RECURSIVE ReplayKey(_, _, _, _)
ReplayKey(cs, key, bufs, acc) ==
    IF cs = <<>> THEN acc
    ELSE LET c == Head(cs) IN
         IF c.op = "flush_all_buffers"
         THEN LET d == DrainCollect(bufs, [i \in 1..Cardinality(DOMAIN bufs) |-> key], 0, <<>>)
              IN ReplayKey(Tail(cs), key, d.buffers,
                           acc \o [i \in 1..Len(d.chunks) |-> d.chunks[i].flush.members])
         ELSE IF c.key # key
         THEN ReplayKey(Tail(cs), key, bufs, acc)
         ELSE LET step == PMStep(bufs, c.msg, 0)
              IN ReplayKey(Tail(cs), key, step.buffers,
                           acc \o (IF step.first.chunk # None THEN <<step.first.members>> ELSE <<>>)
                               \o (IF step.second.chunk # None THEN <<step.second.members>> ELSE <<>>))

EmittedFor(key) ==
    LET es == SelectSeq(emitted, LAMBDA e : e.key = key)
    IN [i \in 1..Len(es) |-> es[i].members]

\* C9: a process_message call for key A leaves every buffer of another key
\* unchanged and emits no chunk with a message of another key; the chunks of
\* key B are those B's own calls produce without the other keys' calls.
C9_Isolation ==
    /\ [](\A k \in DOMAIN buffers : EmittedFor(k) = ReplayKey(calls, k, << >>, <<>>))
    /\ [][(Len(calls') = Len(calls) + 1 /\ calls'[Len(calls')].op = "process_message") =>
            LET c == calls'[Len(calls')]
                A == get_buffer_key(c.msg.guild_id, c.msg.channel_id)
            IN /\ \A k \in DOMAIN buffers : k # A => buffers'[k] = buffers[k]
               /\ DOMAIN buffers' \subseteq DOMAIN buffers \cup {A}
               /\ \A j \in DOMAIN emitted' \ DOMAIN emitted :
                    \A m \in Members(emitted'[j]) :
                        get_buffer_key(m.guild_id, m.channel_id) = A]_vars

\* a chunk of one key was emitted by process_message after a call for
\* another key, whose buffer holds messages, came between its members
C9_Witness ==
    \E j \in DOMAIN emitted : \E i \in 2..L :
        /\ emitted[j].via # "drain" /\ i < emitted[j].call
        /\ calls[i].op = "process_message" /\ calls[i].ok
        /\ calls[i].key # emitted[j].key
        /\ buffers[calls[i].key].messages # <<>>
        /\ \E h \in 1..(i-1) : calls[h].op = "process_message" /\ calls[h].key = emitted[j].key
                               /\ calls[h].msg \in Members(emitted[j])

\* C10 (as claimed): under every delivery schedule (redelivery by the log,
\* inline fallback after a publish that reported failure) every message is a
\* member of at most one emitted chunk and has at most one per-message vector.
C10_AtMostOneChunk ==
    \A a \in DOMAIN arrivals :
        LET m == arrivals[a].msg IN
        /\ Cardinality({j \in DOMAIN emitted : m \in Members(emitted[j])}) <= 1
        /\ Cardinality({v \in vectors : v.type = "message" /\ v.id = m.id}) <= 1

\* The chunk vector of an emitted chunk is in the store.
InStore(e) == \E v \in vectors : v.id = "chunk_" \o e.created.chunk_id

\* C14: when embedding or upsert fails for an emitted chunk, process_message
\* still succeeds, the chunk is dropped (nothing stored, its messages are not
\* back in the buffer), the triggering message is appended, and an upsert is
\* attempted only after a successful embedding.
C14_DroppedChunk ==
    /\ \A j \in DOMAIN emitted :
          LET e == emitted[j] IN
          /\ e.upsert_attempted <=> e.outcome.embed = "ok"
          /\ InStore(e) <=> (e.outcome.embed = "ok" /\ e.outcome.upsert = "ok")
          /\ e.via # "drain" => calls[e.call].ok
    /\ LastIsPM =>
          \A j \in EmittedBy(L) :
              ~InStore(emitted[j]) =>
                  /\ Last.ok
                  /\ buffers[Last.key].messages =
                        IF emitted[j].via = "pre" THEN <<Last.msg>> ELSE <<>>
                  /\ emitted[j].via = "post" => Last.msg \in Members(emitted[j])

\* a chunk was dropped on a failed embedding, and a later chunk of the same
\* channel, formed from the messages that followed, is stored
C14_Witness ==
    \E i, j \in DOMAIN emitted :
        /\ i < j
        /\ emitted[i].outcome.embed = "err" /\ ~InStore(emitted[i])
        /\ emitted[i].key = emitted[j].key
        /\ InStore(emitted[j])
        /\ Members(emitted[i]) \cap Members(emitted[j]) = {}

\* C16: a summary is requested exactly when full_text is longer than 2000;
\* has_summary holds exactly when a summary was obtained; the text embedded
\* is the summary when has_summary, otherwise full_text.
C16_SummaryPolicy ==
    \A j \in DOMAIN emitted :
        LET e == emitted[j] IN
        /\ e.summary_requested <=> Len(e.created.full_text) > 2000
        /\ e.chunk.has_summary <=> e.chunk.summary # None
        /\ e.chunk.has_summary <=> (e.summary_requested /\ e.outcome.summary = "ok")
        /\ e.text_to_embed = IF e.chunk.has_summary THEN e.chunk.summary[1]
                              ELSE e.created.full_text
        /\ e.chunk.full_text = e.created.full_text

\* a chunk of exactly 2000 characters went without a summary request, and
\* for a longer one the request failed and full_text was embedded
C16_Witness ==
    /\ \E j \in DOMAIN emitted :
          /\ Len(emitted[j].created.full_text) = 2000
          /\ ~emitted[j].summary_requested
    /\ \E j \in DOMAIN emitted :
          /\ emitted[j].outcome.summary = "err"
          /\ emitted[j].text_to_embed = emitted[j].created.full_text

\* The process_message call that was given message m.
CallOf(m) ==
    CHOOSE i \in DOMAIN calls : calls[i].op = "process_message" /\ calls[i].msg = m

\* C17: full_text lists the members in the order of the process_message
\* calls that appended them, line i being "{author_id}: {text}" of the i-th;
\* first_msg_id and last_msg_id are the ids of the first and last of them.
C17_TextInCallOrder ==
    \A j \in DOMAIN emitted :
        LET e == emitted[j]
            ms == e.members
        IN /\ \A i \in DOMAIN ms :
                 \E c \in DOMAIN calls :
                     calls[c].op = "process_message" /\ calls[c].ok /\ calls[c].msg = ms[i]
           /\ \A i \in 1..(Len(ms) - 1) : CallOf(ms[i]) < CallOf(ms[i + 1])
           /\ e.created.full_text =
                 Join([i \in DOMAIN ms |-> ms[i].author_id \o ": " \o ms[i].text], "\n")
           /\ e.created.first_msg_id = calls[CallOf(ms[1])].msg.id
           /\ e.created.last_msg_id = calls[CallOf(ms[Len(ms)])].msg.id

\* a chunk whose members differ in author and text
C17_Witness ==
    \E j \in DOMAIN emitted :
        /\ emitted[j].members[1].author_id # emitted[j].members[2].author_id
        /\ emitted[j].members[1].text # emitted[j].members[3].text
        /\ emitted[j].created.first_msg_id # emitted[j].created.last_msg_id

\* str::split("\n").count(): one more than the number of separators in s.
RECURSIVE SplitCount(_, _)
SplitCount(s, i) ==
    IF i > Len(s) THEN 1
    ELSE (IF SubSeq(s, i, i) = "\n" THEN 1 ELSE 0) + SplitCount(s, i + 1)

\* C18 (as claimed): splitting full_text on "\n" gives message_count lines,
\* whatever the texts are.
C18_LinesEqualCount ==
    \A j \in DOMAIN emitted :
        SplitCount(emitted[j].created.full_text, 1) = emitted[j].created.message_count

\* Byte-wise order of two strings of decimal digits.
DigitRank == [c \in {"0", "1", "2", "3", "4", "5", "6", "7", "8", "9"} |->
                CASE c = "0" -> 0 [] c = "1" -> 1 [] c = "2" -> 2 [] c = "3" -> 3
                  [] c = "4" -> 4 [] c = "5" -> 5 [] c = "6" -> 6 [] c = "7" -> 7
                  [] c = "8" -> 8 [] c = "9" -> 9]

RECURSIVE LexLess(_, _)
LexLess(a, b) ==
    IF b = "" THEN FALSE
    ELSE IF a = "" THEN TRUE
    ELSE LET x == DigitRank[SubSeq(a, 1, 1)]
             y == DigitRank[SubSeq(b, 1, 1)]
         IN IF x # y THEN x < y
            ELSE LexLess(SubSeq(a, 2, Len(a)), SubSeq(b, 2, Len(b)))

\* C19: authors is the set of distinct author_ids of the members, without
\* duplicates, in ascending lexicographic order.
C19_AuthorsSorted ==
    \A j \in DOMAIN emitted :
        LET a == emitted[j].created.authors IN
        /\ {a[i] : i \in DOMAIN a} = {m.author_id : m \in Members(emitted[j])}
        /\ \A i, k \in DOMAIN a : i < k => LexLess(a[i], a[k])

\* a chunk whose first member is by "7" and a later one by "42"
C19_Witness ==
    \E j \in DOMAIN emitted :
        /\ emitted[j].members[1].author_id = "7"
        /\ emitted[j].created.authors = <<"42", "7">>

\* The arrivals that make up the message sequence of a channel: written by a
\* user, with a timestamp that parses.
InSequence(a) == ~arrivals[a].bot /\ arrivals[a].msg.timestamp # None

SameChannel(a, b) ==
    get_buffer_key(arrivals[a].msg.guild_id, arrivals[a].msg.channel_id)
        = get_buffer_key(arrivals[b].msg.guild_id, arrivals[b].msg.channel_id)

\* C11: every emitted chunk is a contiguous window of its channel's message
\* sequence, whichever path (log consumer or inline fallback) processed its
\* messages: a message that arrived between two members of a chunk, in the
\* same channel, is a member of that chunk as well.
C11_ContiguousWindow ==
    \A j \in DOMAIN emitted :
        \A a, b, c \in DOMAIN arrivals :
            (/\ a < b /\ b < c
             /\ InSequence(a) /\ InSequence(b) /\ InSequence(c)
             /\ SameChannel(a, b) /\ SameChannel(b, c)
             /\ arrivals[a].msg \in Members(emitted[j])
             /\ arrivals[c].msg \in Members(emitted[j]))
            => arrivals[b].msg \in Members(emitted[j])

\* The record of the message is in the log.
InLog(m) ==
    \E p \in DOMAIN log : \E i \in DOMAIN log[p] :
        log[p][i] = [payload |-> Some(to_vec(new_discord_message(m)))]

\* The number of inline process_message_directly calls made for the message.
InlineCalls(m) ==
    Cardinality({i \in DOMAIN calls : calls[i].mgr = "handler" /\ calls[i].msg = m})

\* C12: for every non-bot arrival, Handler::message publishes an envelope
\* when a producer is present, and processes the message inline exactly when
\* the producer is absent or the publish returned an error; no message is
\* left both unpublished and unprocessed.
C12_PublishOrInline ==
    \A a \in DOMAIN arrivals :
        LET x == arrivals[a] IN
        ~x.bot =>
            /\ kafka_producer <=> x.send \in {"ok", "err", "err_written"}
            /\ x.send = "ok" => InLog(x.msg)
            /\ InlineCalls(x.msg) =
                  (IF ~kafka_producer \/ x.send \in {"err", "err_written"} THEN 1 ELSE 0)
            /\ InLog(x.msg) \/ InlineCalls(x.msg) > 0

C12_Witness ==
    \E a, b \in DOMAIN arrivals :
        /\ arrivals[a].send = "err" /\ ~InLog(arrivals[a].msg)
        /\ InlineCalls(arrivals[a].msg) = 1
        /\ arrivals[b].send = "ok" /\ InLog(arrivals[b].msg)
        /\ InlineCalls(arrivals[b].msg) = 0

\* The last iteration of the consumer loop, in a step that made one.
Iterated == Len(iterations') = Len(iterations) + 1
LastIteration == iterations'[Len(iterations')]

\* A step of the consumer loop goes on to the next record, and touches the
\* chunk buffers only for a DiscordMessage envelope.
LoopStep ==
    Iterated =>
        /\ consuming'
        /\ LastIteration.kind # "recv_error" =>
              offset'[LastIteration.partition] = LastIteration.offset + 1
        /\ LastIteration.kind # "discord" =>
              /\ buffers' = buffers /\ h_buffers' = h_buffers
              /\ emitted' = emitted /\ calls' = calls /\ vectors' = vectors
        /\ LastIteration.result \in {"continue", "Ok", "Err"}

\* The iteration met a problem with its record: it could not be received,
\* deserialized or handled, or a chunking or embedding step failed.
Troubled(it) ==
    \/ it.kind \in {"recv_error", "deserialize_error", "unhandled"}
    \/ it.kind = "query" /\ it.result = "Err"
    \/ /\ it.kind = "discord"
       /\ \/ ~calls[it.call].ok
          \/ calls[it.call].vector # "stored"
          \/ \E j \in DOMAIN emitted : emitted[j].call = it.call /\ emitted[j].failures > 0

\* C13 (as the code has it): the consumer loop never stops on a per-record
\* problem.  A receive error, an undeserializable payload, an unhandled event
\* type and a failed chunking or embedding step are logged, a record without
\* a payload is skipped without a log entry, and in every case the loop
\* proceeds to the next record; records that are not valid DiscordMessage
\* envelopes leave all chunk buffers unchanged.
C13_LoopGoesOn ==
    /\ []consuming
    /\ [][LoopStep]_vars
    /\ [](\A i \in DOMAIN iterations :
            /\ Troubled(iterations[i]) => iterations[i].logged
            /\ iterations[i].kind = "no_payload" => ~iterations[i].logged)

C13_Witness ==
    \E i, j, k \in DOMAIN iterations :
        /\ i < k /\ j < k
        /\ iterations[i].kind = "deserialize_error"
        /\ iterations[j].kind = "discord" /\ ~calls[iterations[j].call].ok
        /\ iterations[k].kind = "discord" /\ calls[iterations[k].call].ok
        /\ consuming

\* C13 as stated: every per-record problem, a record without a payload
\* included, is logged before the loop proceeds.
C13_EveryProblemLogged ==
    /\ consuming
    /\ \A i \in DOMAIN iterations :
          (Troubled(iterations[i]) \/ iterations[i].kind = "no_payload")
              => iterations[i].logged

\* C15: for every DiscordMessage processed, from the log or inline, a
\* per-message embed and upsert keyed by the message id is attempted,
\* whether chunking returned an error, emitted a chunk or dropped one; so
\* every member of a dropped chunk has had its per-message attempt.
C15_PerMessageVector ==
    /\ \A i \in DOMAIN calls :
          /\ calls[i].vector \in MessageOutcomes
          /\ calls[i].vector = "stored" =>
                \E v \in vectors : v.type = "message" /\ v.id = calls[i].msg.id
                                   /\ v.of = calls[i].msg
    /\ \A j \in DOMAIN emitted : \A m \in Members(emitted[j]) :
          \E i \in DOMAIN calls : calls[i].msg = m /\ calls[i].vector \in MessageOutcomes
    /\ \A a \in DOMAIN arrivals :
          (\E v \in vectors : v.type = "message" /\ v.id = arrivals[a].msg.id)
              \/ \A i \in DOMAIN calls :
                    calls[i].msg = arrivals[a].msg => calls[i].vector # "stored"

C15_Witness ==
    \E i \in DOMAIN calls, j \in DOMAIN emitted :
        /\ ~calls[i].ok /\ calls[i].vector = "stored"
        /\ \E v \in vectors : v.type = "message" /\ v.id = calls[i].msg.id
        /\ ~InStore(emitted[j])
        /\ \A m \in Members(emitted[j]) :
              \E v \in vectors : v.type = "message" /\ v.id = m.id

\* The DiscordMessage envelopes in partition p of the log.
Envelopes(p) ==
    {from_slice(log[p][i].payload[1]).value :
        i \in {j \in DOMAIN log[p] : Dispatch(log[p][j]) = "discord"}}

\* C20: get_partition_key returns guild_id when it is present and
\* "dm:" + channel_id otherwise, and depends on (guild_id, channel_id) only:
\* envelopes with equal guild_id and channel_id are under the same key, and
\* the envelope built by new_discord_message carries the guild_id and
\* channel_id of its own message.
C20_PartitionKey ==
    /\ \A p \in DOMAIN log : \A e \in Envelopes(p) :
          /\ e.guild_id = e.payload.event.guild_id
          /\ e.channel_id = e.payload.event.channel_id
          /\ e.guild_id # None => p = e.guild_id[1]
          /\ e.guild_id = None => p = "dm:" \o e.channel_id
    /\ \A p, q \in DOMAIN log : \A e \in Envelopes(p), f \in Envelopes(q) :
          (e.guild_id = f.guild_id /\ e.channel_id = f.channel_id) => p = q
    /\ \A a \in DOMAIN arrivals :
          arrivals[a].send = "ok" =>
              new_discord_message(arrivals[a].msg)
                  \in Envelopes(get_partition_key(new_discord_message(arrivals[a].msg)))

C20_Witness ==
    /\ {"g1", "dm:c1"} \subseteq DOMAIN log
    /\ Cardinality(Envelopes("g1")) >= 2
    /\ \E e \in Envelopes("dm:c1") : e.guild_id = None /\ e.channel_id = "c1"

\* A step of the indexer loop goes on to the next record of the partition.
IxStep ==
    Len(ix_iterations') = Len(ix_iterations) + 1 =>
        LET it == ix_iterations'[Len(ix_iterations')] IN
        /\ indexing'
        /\ it.kind # "recv_error" => ix_offset'[it.partition] = it.offset + 1

\* The documents of the keyword index that hold the message with this id.
DocumentsOf(id) == {d \in es_documents : d.source.message_id = id}

\* The last index request made for the message with this id.
LastRequestFor(id) ==
    LET S == {i \in DOMAIN ix_iterations :
                 ix_iterations[i].request # None /\ ix_iterations[i].request[1].doc.message_id = id}
    IN CHOOSE i \in S : \A j \in S : j <= i

\* C21: for every DiscordMessage envelope it receives, the indexer issues one
\* index request keyed by the message id; an indexing or deserialization
\* failure is logged and never stops the loop or blocks later envelopes, and
\* indexing the same message twice leaves a single document for that id.
C21_IndexerIdempotent ==
    /\ []indexing
    /\ [][IxStep]_vars
    /\ [](\A i \in DOMAIN ix_iterations :
            LET it == ix_iterations[i]
                record == log[it.partition][it.offset + 1]
            IN /\ it.kind # "recv_error" =>
                    ((record.payload # None
                        /\ from_slice(record.payload[1]).ok
                        /\ from_slice(record.payload[1]).value.payload.variant = "DiscordMessage")
                     <=> it.request # None)
               /\ it.request # None =>
                    /\ it.request[1].id
                          = from_slice(record.payload[1]).value.payload.event.id
                    /\ it.request[1].doc.message_id = it.request[1].id
               /\ (it.kind = "deserialize_error" \/ it.outcome \in {"rejected", "error"})
                     => it.logged)
    /\ [](\A a \in DOMAIN arrivals :
            LET id == arrivals[a].msg.id IN
            /\ Cardinality(DocumentsOf(id)) <= 1
            /\ \A d \in DocumentsOf(id) : d.id = id /\ d.source.text = arrivals[a].msg.text
            /\ (\E i \in DOMAIN ix_iterations : ix_iterations[i].request # None
                    /\ ix_iterations[i].request[1].doc.message_id = id
                    /\ ix_iterations[i].outcome = "ok")
                  => DocumentsOf(id) # {})

C21_Witness ==
    \E i, j, k \in DOMAIN ix_iterations :
        /\ i < j /\ i < k
        /\ ix_iterations[i].kind = "discord" /\ ix_iterations[i].outcome = "ok"
        /\ ix_iterations[j].kind = "discord" /\ ix_iterations[j].outcome = "ok"
        /\ ix_iterations[i].request = ix_iterations[j].request
        /\ Cardinality(DocumentsOf(ix_iterations[i].request[1].doc.message_id)) = 1
        /\ \E f \in DOMAIN ix_iterations :
              /\ f < k
              /\ ix_iterations[f].kind = "deserialize_error" \/ ix_iterations[f].outcome = "error"
        /\ ix_iterations[k].kind = "discord" /\ ix_iterations[k].outcome = "ok"

\* The /ask tasks that took the dense-only path, the hybrid path.
DenseAsks == {t \in DOMAIN tasks : IsAsk(t) /\ tasks[t].path = "dense"}
HybridAsks == {t \in DOMAIN tasks : IsAsk(t) /\ tasks[t].path = "hybrid"}

\* The positions of the calls of a task with one of these names.
StepsOf(t, ops) == {i \in DOMAIN tasks[t].steps : tasks[t].steps[i].op \in ops}

Answered(t) == tasks[t].result # None /\ tasks[t].result[1].ok

\* C22: on the dense-only path the calls are made in the order embed, chunk
\* query, then (only if the chunk result is empty) the per-message query
\* with topK = 5 and the same guild filter, then (only if some result is
\* non-empty) exactly one generation call; when the chunk result is
\* non-empty the answer is generated from the chunks and the per-message
\* query is never issued.
C22_DenseOrder ==
    \A t \in DenseAsks :
        LET st == tasks[t].steps IN
        /\ \A i \in DOMAIN st :
              /\ st[i].op = "embed" => i = 2
              /\ st[i].op = "queryChunks" => i = 3 /\ st[2].op = "embed" /\ st[2].ok
              /\ st[i].op = "queryMessages" =>
                    /\ i = 4 /\ st[3].op = "queryChunks" /\ st[3].ok /\ st[3].found = 0
                    /\ st[i].topK = 5
                    /\ st[i].filter[1].guild_id = st[3].filter[1].guild_id
              /\ st[i].op = "generateFromChunks" =>
                    i = 4 /\ st[3].op = "queryChunks" /\ st[3].ok /\ st[3].found > 0
              /\ st[i].op = "generate" =>
                    i = 5 /\ st[4].op = "queryMessages" /\ st[4].ok /\ st[4].found > 0
        /\ Cardinality(StepsOf(t, {"generate", "generateFromChunks"})) <= 1
        /\ (Answered(t) /\ tasks[t].result[1].text # NO_MESSAGES) =>
              Cardinality(StepsOf(t, {"generate", "generateFromChunks"})) = 1
        /\ (\E i \in StepsOf(t, {"queryChunks"}) : st[i].ok /\ st[i].found > 0) =>
              /\ StepsOf(t, {"queryMessages", "generate"}) = {}
              /\ Answered(t) => StepsOf(t, {"generateFromChunks"}) # {}

C22_Witness ==
    \E t, u \in DenseAsks :
        /\ Answered(t) /\ Answered(u)
        /\ [i \in DOMAIN tasks[t].steps |-> tasks[t].steps[i].op]
              = <<"response", "embed", "queryChunks", "queryMessages", "generate">>
        /\ [i \in DOMAIN tasks[u].steps |-> tasks[u].steps[i].op]
              = <<"response", "embed", "queryChunks", "generateFromChunks">>

\* Retrieval found no hit: on the dense-only path both queries returned
\* nothing, on the hybrid path neither back-end returned anything, so that
\* the fused list is empty.
NoHit(t) ==
    LET st == tasks[t].steps IN
    /\ Answered(t)
    /\ IF tasks[t].path = "dense"
       THEN /\ \E i \in StepsOf(t, {"queryChunks"}) : st[i].found = 0
            /\ \E i \in StepsOf(t, {"queryMessages"}) : st[i].found = 0
       ELSE /\ \A i \in StepsOf(t, {"queryChunks"}) : st[i].found = 0
            /\ \E i \in StepsOf(t, {"search"}) : st[i].found = 0

\* C23: whenever retrieval finds no hit, in dense-only and in hybrid mode,
\* the answer is exactly the literal "I couldn't find any relevant messages
\* in the history to answer your question." and the chat model is not called.
C23_FixedString ==
    \A t \in DenseAsks \cup HybridAsks :
        NoHit(t) =>
            /\ tasks[t].result[1].text = NO_MESSAGES
            /\ StepsOf(t, {"generate", "generateFromChunks"}) = {}

\* C24: in every retrieval mode and for guild and DM callers, answering a
\* question issues a chunk query with topK = 3, filter type = "chunk" and
\* guild_id equal to the caller's guild (absent for a caller without guild).
C24_ChunkQuery ==
    \A t \in DenseAsks \cup HybridAsks :
        Answered(t) =>
            \E i \in StepsOf(t, {"queryChunks"}) :
                /\ tasks[t].steps[i].topK = 3
                /\ tasks[t].steps[i].filter
                      = Some([type |-> Some("chunk"),
                              guild_id |-> IF tasks[t].guild_id # None
                                           THEN [eq |-> tasks[t].guild_id[1]]
                                           ELSE [exists |-> FALSE]])

\* The hits of a sequence of results.
Hits(results) == {results[i] : i \in DOMAIN results}

\* C25: in hybrid fusion an item returned by both back-ends with cosine score
\* s and keyword score k receives the final score 0.65*(s+1)/2 + 0.35*(k/10)
\* (scores in thousandths: s = 800 and k = 6000 give 795).
C25_FusedScore ==
    \A t \in HybridAsks :
        tasks[t].merged # <<>> =>
            \A c \in Hits(tasks[t].results), e \in Hits(tasks[t].es_results) :
                c.text = e.text =>
                    \E x \in Hits(tasks[t].merged) :
                        /\ x.text = c.text
                        /\ x.final = (65 * ((c.score + 1000) \div 2) + 35 * (e.score \div 10)) \div 100

\* C26: the list returned by hybrid fusion has at most one entry per distinct
\* text: when a chunk hit and a keyword hit have the same text only the one
\* with the higher final score appears, and the list is in descending order
\* of final score.
C26_OneEntryPerText ==
    \A t \in HybridAsks :
        LET m == tasks[t].merged IN
        /\ \A i, j \in DOMAIN m : i < j => m[i].text # m[j].text /\ m[i].final >= m[j].final
        /\ \A c \in Hits(tasks[t].results), e \in Hits(tasks[t].es_results) :
              (m # <<>> /\ c.text = e.text) =>
                  \A x \in Hits(m) :
                      x.text = c.text =>
                          /\ x.final >= (65 * ((c.score + 1000) \div 2)) \div 100
                          /\ x.final >= (35 * (e.score \div 10)) \div 100

\* C25 as the code has it: every entry of the fused list carries the score
\* of one back-end only, 0.65*(s+1)/2 for a chunk hit with cosine score s or
\* 0.35*(k/10) for a keyword hit with score k, never their sum; when the id
\* of a chunk hit equals the text of a keyword hit, one entry is kept for
\* both, with the larger of the two scores.
C25_FusedScoreMax ==
    \A t \in HybridAsks :
        LET m == tasks[t].merged IN
        /\ \A x \in Hits(m) :
              \/ /\ x.from = "dense"
                 /\ \E c \in Hits(tasks[t].results) :
                       x.text = c.text /\ x.final = (65 * ((c.score + 1000) \div 2)) \div 100
              \/ /\ x.from = "keyword"
                 /\ \E e \in Hits(tasks[t].es_results) :
                       x.text = e.text /\ x.final = (35 * (e.score \div 10)) \div 100
        /\ \A c \in Hits(tasks[t].results), e \in Hits(tasks[t].es_results) :
              (m # <<>> /\ c.chunk_id = e.text) =>
                  LET d == (65 * ((c.score + 1000) \div 2)) \div 100
                      k == (35 * (e.score \div 10)) \div 100
                  IN  \E i \in DOMAIN m :
                          /\ m[i].text = e.text
                          /\ m[i].final = IF k > d THEN k ELSE d
                          /\ \A j \in DOMAIN m :
                                (j # i /\ m[j].text = e.text) => m[j].from = "keyword"

C25_Witness ==
    \E t \in HybridAsks :
        /\ tasks[t].results = <<ChunkA, ChunkB>>
        /\ Len(tasks[t].es_results) = 2
        /\ \E x \in Hits(tasks[t].merged) : x.text = "t1" /\ x.final = 585
        /\ \E x \in Hits(tasks[t].merged) : x.text = "t2" /\ x.final = 420

\* The startup task.
Started == tasks # <<>> /\ tasks[1].kind = "startup"

Calls(t) == {i \in DOMAIN tasks[t].steps : i > 1}

\* C28: when the embedding call, a vector query, the keyword query or the
\* generation call fails, answering returns an error (never a partial
\* answer or the fixed string) and no later retrieval step is executed; the
\* /ask caller then sends exactly one follow-up, the fixed apology on an
\* error and the answer on success.
C28_ErrorsPropagate ==
    \A t \in DenseAsks \cup HybridAsks :
        LET st == tasks[t].steps IN
        /\ \A i \in Calls(t) :
              ~st[i].ok =>
                  /\ i = Len(st)
                  /\ tasks[t].result = Some([ok |-> FALSE, text |-> ""])
        /\ (tasks[t].result # None /\ ~tasks[t].result[1].ok) =>
              \E i \in Calls(t) : ~st[i].ok
        /\ tasks[t].pc # "done" => tasks[t].followups = <<>>
        /\ tasks[t].pc = "done" =>
              /\ tasks[t].result # None
              /\ tasks[t].followups =
                    <<IF \E i \in Calls(t) : ~st[i].ok
                      THEN APOLOGY ELSE tasks[t].result[1].text>>

C28_Witness ==
    \E t, u \in DenseAsks \cup HybridAsks :
        /\ tasks[t].pc = "done" /\ tasks[u].pc = "done"
        /\ \E i \in Calls(t) : ~tasks[t].steps[i].ok /\ tasks[t].steps[i].op \in {"queryChunks", "search"}
        /\ tasks[t].followups = <<APOLOGY>>
        /\ Answered(u) /\ tasks[u].followups = <<tasks[u].result[1].text>>
        /\ tasks[u].result[1].text \notin {NO_MESSAGES, NO_INFORMATION, APOLOGY}

\* The message tasks waiting for the Mutex, holding it.
Waiting == {t \in DOMAIN tasks : IsMessage(t) /\ tasks[t].pc = "lock"}
Holding == {t \in DOMAIN tasks : IsMessage(t) /\ tasks[t].pc \in {"locked", "embedding"}}

\* C29: an event for one (guild, channel) key is never blocked by an event
\* in progress for a different key: a message waiting to enter chunk
\* processing while only messages of other keys are inside it can enter.
C29_NoCrossKeyBlocking ==
    \A t \in Waiting :
        (\A u \in Holding : tasks[u].key # tasks[t].key) => CanLock(t)

\* A step of an /ask task: the task is created or one of its fields changes.
AskStep ==
    \E t \in DOMAIN tasks' :
        /\ tasks'[t].kind = "ask"
        /\ t \in DOMAIN tasks => tasks'[t] # tasks[t]

\* C30: answering a query never reads or modifies the chunk buffers and
\* never takes the chunker's lock: every step of a query leaves buffers, lock
\* and every other task as they were, a query that has not completed can
\* take its next step whoever holds the lock, and the lock is only ever held
\* by a message task.
C30_QueryFrame ==
    /\ [][AskStep =>
            /\ buffers' = buffers /\ h_buffers' = h_buffers /\ lock' = lock
            /\ vectors' = vectors /\ uuid' = uuid
            /\ \E t \in DOMAIN tasks' :
                  \A u \in DOMAIN tasks : u # t => tasks'[u] = tasks[u]]_vars
    /\ [](lock # 0 => IsMessage(lock))
    /\ []((\E t \in DOMAIN tasks : IsAsk(t) /\ tasks[t].pc # "done") =>
              ENABLED (HandleAskCommand \/ HybridSearch \/ Followup))

C30_Witness ==
    \E t \in DenseAsks \cup HybridAsks :
        /\ tasks[t].pc = "done" /\ Answered(t)
        /\ tasks[t].began # 0 /\ tasks[t].ended = tasks[t].began
        /\ lock = tasks[t].began

\* C32: in every reachable state a buffer without messages has
\* last_message_time equal to the epoch sentinel, and a buffer with messages
\* has last_message_time equal to the parsed timestamp of the message added
\* last.
C32_LastMessageTime ==
    \A k \in DOMAIN buffers :
        LET b == buffers[k] IN
        /\ b.messages = <<>> => b.last_message_time = 0
        /\ b.messages # <<>> =>
              /\ Len(b.messages[Len(b.messages)].timestamp) = 1
              /\ b.last_message_time = b.messages[Len(b.messages)].timestamp[1]

\* The messages process_message accepted so far.
Accepted == {calls[i].msg : i \in {j \in DOMAIN calls : calls[j].op = "process_message" /\ calls[j].ok}}

\* The places a message is in: positions of buffers, positions of emitted chunks.
PlacesInBuffers(m) ==
    UNION {{<<k, i>> : i \in {x \in DOMAIN buffers[k].messages : buffers[k].messages[x] = m}} :
              k \in DOMAIN buffers}
PlacesInChunks(m) ==
    UNION {{<<j, i>> : i \in {x \in DOMAIN emitted[j].members : emitted[j].members[x] = m}} :
              j \in DOMAIN emitted}

\* C34: within one ChunkManager, with parseable timestamps and distinct ids,
\* every accepted message is in exactly one place: once in the buffer of its
\* own key, or a member (once) of exactly one emitted chunk.
C34_ExactlyOnePlace ==
    \A m \in Accepted :
        /\ Cardinality(PlacesInBuffers(m)) + Cardinality(PlacesInChunks(m)) = 1
        /\ \A x \in PlacesInBuffers(m) :
              x[1] = (IF m.guild_id # <<>> THEN m.guild_id[1] \o ":" \o m.channel_id
                      ELSE "dm:" \o m.channel_id)

\* messages of two keys, some emitted in a chunk and some still buffered
C34_Witness ==
    /\ \E m \in Accepted : PlacesInChunks(m) # {}
    /\ \E m, n \in Accepted :
          /\ PlacesInBuffers(m) # {} /\ PlacesInBuffers(n) # {}
          /\ \E x \in PlacesInBuffers(m), y \in PlacesInBuffers(n) : x[1] # y[1]

\* C35: after every process_message call every buffer holds at most 11
\* messages; so the size test before the append never fires, and every chunk
\* emitted by the size test after the append has exactly 12 members, the
\* last of them the message of that call.
C35_AtMostEleven ==
    /\ \A k \in DOMAIN buffers : Len(buffers[k].messages) <= 11
    /\ \A i \in DOMAIN calls :
          calls[i].op = "process_message" => Len(calls[i].pre.messages) < 12
    /\ \A j \in DOMAIN emitted :
          emitted[j].via = "post" =>
              /\ Len(emitted[j].members) = 12
              /\ emitted[j].members[12] = calls[emitted[j].call].msg

\* a chunk emitted by the size test, and the next message alone in the buffer
C35_Witness ==
    /\ \E j \in DOMAIN emitted : emitted[j].via = "post"
    /\ \E k \in DOMAIN buffers : Len(buffers[k].messages) = 1

\* C36: in a chunk emitted by process_message two consecutive members are
\* more than 15 minutes apart only if the earlier one is at position 1 or 2.
C36_GapsOnlyAtStart ==
    \A j \in DOMAIN emitted :
        emitted[j].via # "drain" =>
            \A i \in 1..(Len(emitted[j].members) - 1) :
                (emitted[j].members[i + 1].timestamp[1] - emitted[j].members[i].timestamp[1]
                    > 15 * 60) => i \in {1, 2}

\* a chunk whose second and third members are more than 15 minutes apart
C36_Witness ==
    \E j \in DOMAIN emitted :
        /\ emitted[j].via # "drain"
        /\ emitted[j].members[3].timestamp[1] - emitted[j].members[2].timestamp[1] > 15 * 60
        /\ emitted[j].members[2].timestamp[1] - emitted[j].members[1].timestamp[1] > 15 * 60

\* C37: a buffer changes only in a process_message call for its own key or
\* in flush_all_buffers, and a chunk is emitted only in such a call, for the
\* key of the call or by the drain; nothing else, and no passing of time,
\* touches a buffer.
C37_NoTimer ==
    [][LET c == calls'[Len(calls')] IN
       /\ \A k \in DOMAIN buffers' :
             (k \notin DOMAIN buffers \/ buffers'[k] # buffers[k]) =>
                 /\ Len(calls') = Len(calls) + 1
                 /\ \/ c.op = "process_message" /\ c.ok /\ c.key = k
                    \/ c.op = "flush_all_buffers"
       /\ DOMAIN buffers \subseteq DOMAIN buffers'
       /\ emitted' # emitted =>
             /\ Len(calls') = Len(calls) + 1
             /\ \A j \in (DOMAIN emitted') \ (DOMAIN emitted) :
                   /\ emitted'[j].call = Len(calls')
                   /\ \/ c.op = "process_message" /\ c.ok /\ emitted'[j].key = c.key
                      \/ c.op = "flush_all_buffers" /\ emitted'[j].via = "drain"]_vars

\* a buffer of three messages is still whole, and nothing was emitted, after
\* a message of another key arrived more than 15 minutes later
C37_Witness ==
    /\ LastIsPM /\ Last.ok /\ emitted = <<>>
    /\ \E k \in DOMAIN buffers :
          /\ k # Last.key
          /\ Len(buffers[k].messages) >= 3
          /\ Last.msg.timestamp[1] - buffers[k].last_message_time > 15 * 60

\* The message with this id is in a buffer, at this position.
BufferedAt(id, pos) ==
    \E k \in DOMAIN buffers :
        pos \in DOMAIN buffers[k].messages /\ buffers[k].messages[pos].id = id

EmittedId(id) ==
    \E j \in DOMAIN emitted : \E i \in DOMAIN emitted[j].members : emitted[j].members[i].id = id

\* The messages still to arrive on the channel.
ToCome == Profile.len - Len(Offered)

\* The accepted calls for the key of call i that came after it.
Followers(i) ==
    {j \in DOMAIN calls : j > i /\ calls[j].op = "process_message" /\ calls[j].ok
                           /\ calls[j].key = calls[i].key}

\* C33: if messages with parseable timestamps keep arriving on a channel,
\* every message buffered for it is eventually emitted in a chunk: a message
\* at position p of its buffer with at least 12 - p messages still to come is
\* eventually a member of an emitted chunk, and no accepted message is still
\* waiting once 11 more were accepted for its key; this includes the
\* messages of a buffer that a flush below the minimum left intact.
C33_EventuallyEmitted ==
    /\ \A n \in 1..14 :
          (\E pos \in 1..11 : BufferedAt(ToString(100 + n), pos) /\ ToCome >= 12 - pos)
              ~> EmittedId(ToString(100 + n))
    /\ [](\A i \in DOMAIN calls :
             (calls[i].op = "process_message" /\ calls[i].ok
                 /\ Cardinality(Followers(i)) >= 11) => EmittedId(calls[i].msg.id))

\* the two messages that a flush below the minimum left in the buffer are
\* members of a chunk emitted later
C33_Witness ==
    \E i \in DOMAIN calls :
        /\ calls[i].op = "process_message" /\ calls[i].ok /\ calls[i].decision
        /\ Len(calls[i].pre.messages) = 2
        /\ \E j \in DOMAIN emitted :
              /\ emitted[j].call > i
              /\ emitted[j].members[1] = calls[i].pre.messages[1]
              /\ emitted[j].members[2] = calls[i].pre.messages[2]
              /\ emitted[j].members[3] = calls[i].msg

-----------------------------------------------------------------------------
(* The buffer key and the partition key *)

-----------------------------------------------------------------------------
(* The lock of the inline path *)

\* The message tasks that are executing chunk_manager.process_message.
InProcessMessage == {t \in DOMAIN tasks : IsMessage(t) /\ tasks[t].pc = "locked"}

\* The buffer keys whose buffer differs between the two maps.
ChangedKeys(old, new) ==
    {k \in DOMAIN old \cup DOMAIN new :
        k \notin DOMAIN old \/ k \notin DOMAIN new \/ old[k] # new[k]}

\* C31: two executions of process_message for the same buffer key never
\* interleave: no two message tasks with the same key are inside
\* process_message together, and the handler's buffers change only in the
\* step of the task that holds the lock, and only under that task's key.
C31_SameKeySerialized ==
    /\ [](\A t, u \in InProcessMessage : tasks[t].key = tasks[u].key => t = u)
    /\ [][h_buffers' # h_buffers =>
            /\ lock \in InProcessMessage
            /\ ChangedKeys(h_buffers, h_buffers') = {tasks[lock].key}]_vars

\* a message is inside process_message while another for the same key waits
\* for the lock
C31_Witness ==
    \E t \in InProcessMessage, u \in Waiting :
        /\ tasks[t].key = tasks[u].key
        /\ lock = t

\* The message tasks inside process_message_directly past the lock.
Inside == {t \in DOMAIN tasks : IsMessage(t) /\ tasks[t].pc \in {"locked", "embedding"}}

\* C39: on the inline path the lock taken before process_message is held
\* until the per-message embed and upsert have finished: at most one message
\* is inside inline processing and it is the holder of the lock, the lock is
\* given up only in the step that records the outcome of the holder's
\* per-message embed and upsert, and it is taken only when it is free, so
\* messages leave inline processing in the order in which they took the lock.
C39_HeldThroughEmbed ==
    /\ [](/\ Cardinality(Inside) <= 1
          /\ \A t \in Inside : lock = t
          /\ lock # 0 => lock \in Inside)
    /\ [][lock' # lock =>
            \/ /\ lock = 0
               /\ lock' \in Waiting
               /\ tasks'[lock'].pc = "locked"
            \/ /\ lock' = 0
               /\ tasks[lock].pc = "embedding"
               /\ tasks'[lock].pc = "done"
               /\ calls[tasks[lock].call].vector = "none"
               /\ calls'[tasks[lock].call].vector \in {"stored", "embed_err", "upsert_err"}]_vars

\* a message at its per-message embed holds the lock while another one waits
C39_Witness ==
    \E t, u \in DOMAIN tasks :
        /\ IsMessage(t) /\ tasks[t].pc = "embedding" /\ lock = t
        /\ u \in Waiting
        /\ tasks[u].key # tasks[t].key

-----------------------------------------------------------------------------
(* The options of /ask on the dense-only path *)

\* The reply to call i of the task: whether it succeeded and how many
\* results it returned.
Reply(t, i) == <<tasks[t].steps[i].ok, tasks[t].steps[i].found>>

\* The request of call i of the task.
Request(t, i) == <<tasks[t].steps[i].op, tasks[t].steps[i].topK, tasks[t].steps[i].filter>>

\* The two tasks got the same replies to their first n calls.
SameReplies(t, u, n) ==
    \A j \in 1..n :
        (j <= Len(tasks[t].steps) /\ j <= Len(tasks[u].steps)) => Reply(t, j) = Reply(u, j)

\* C40: in dense-only mode the channel and author arguments of /ask have no
\* effect: two commands of the same guild that were given the same replies
\* make the same requests, in the same order, keep the same results and send
\* the same follow-up, whatever their channel and author options.
C40_OptionsIgnored ==
    \A t, u \in DenseAsks :
        tasks[t].guild_id = tasks[u].guild_id =>
            /\ \A i \in DOMAIN tasks[t].steps \cap DOMAIN tasks[u].steps :
                  SameReplies(t, u, i - 1) => Request(t, i) = Request(u, i)
            /\ (Len(tasks[t].steps) = Len(tasks[u].steps)
                    /\ SameReplies(t, u, Len(tasks[t].steps))) =>
                  /\ tasks[t].pc = tasks[u].pc \/ "followup" \in {tasks[t].pc, tasks[u].pc}
                  /\ tasks[t].results = tasks[u].results
                  /\ tasks[t].result = tasks[u].result
                  /\ (tasks[t].pc = "done" /\ tasks[u].pc = "done") =>
                        tasks[t].followups = tasks[u].followups

\* two answered commands of one guild, one with both options and one with
\* none, after the same replies
C40_Witness ==
    \E t, u \in DenseAsks :
        /\ tasks[t].guild_id = Some("g1") /\ tasks[u].guild_id = Some("g1")
        /\ tasks[t].channel_filter = Some("c1") /\ tasks[t].author_filter = Some("7")
        /\ tasks[u].channel_filter = None /\ tasks[u].author_filter = None
        /\ tasks[t].pc = "done" /\ tasks[u].pc = "done"
        /\ Answered(t) /\ Answered(u)
        /\ Len(tasks[t].steps) = Len(tasks[u].steps)
        /\ SameReplies(t, u, Len(tasks[t].steps))
        /\ "queryChunks" \in {tasks[t].steps[i].op : i \in DOMAIN tasks[t].steps}
        /\ tasks[t].followups = tasks[u].followups

====
